---- MODULE Spec2Model ----
(***************************************************************************)
(* A model of agent-bench's task execution core:                           *)
(*   - Verifier.verify          (evaluator/verifier.ts, src/unnamed/part_003) *)
(*   - OpencodeAgent.execute    (src/src/agents/opencode.ts)               *)
(*   - the run and verify commands (src/src/cli/commands/verify.ts) and    *)
(*     the Runner they call                                                *)
(*   - the result collector     (src/src/utils/errors.ts)                  *)
(* Each component has its own specification (VerifierSpec, VerifyTwiceSpec, *)
(* AgentSpec, RunnerSpec, CollectorSpec) over its own variables; the other *)
(* components' variables stay at their initial values.                     *)
(***************************************************************************)
EXTENDS Integers, Sequences, FiniteSets, TLC

(***************************************************************************)
(* Bounds of the model.                                                    *)
(***************************************************************************)
\* longest verification command text, in characters
MaxCmdLen == 3
\* largest declared timeout, in seconds
MaxTimeout == 2
\* most output chunks one child process writes (both streams together)
MaxChunks == 3

(***************************************************************************)
(* Option values: JavaScript's null is None, a number n is Some(n).        *)
(***************************************************************************)
None == {}
Some(x) == {x}

(***************************************************************************)
(* Verifier: state                                                         *)
(***************************************************************************)
VARIABLES
  command,      \* task.verification.command, a sequence of characters
  timeout,      \* task.verification.timeout, in seconds
  vpc,          \* "start": verify not yet called; "called": its body has run
  promise,      \* the promise verify returns: [state, value]
  attempts,     \* resolve/reject calls made on the promise so far
  proc,         \* the child: "none", "spawnfail", "running", "exited", "killed"
  exitCode,     \* the child's exit code: Some(n); None when a signal ended it
  spawnError,   \* the error the spawn failed with: Some(code), else None
  errorEmitted, \* the child has emitted 'error' for the failed spawn
  signalled,    \* a SIGTERM has been delivered to the running child
  closed,       \* the child's 'close' event has been emitted
  spawnTimer,   \* the spawn primitive's own timeout timer is armed
  timeoutId,    \* the explicit setTimeout timer is armed
  deadline,     \* the declared timeout has elapsed since the spawn
  kills,        \* proc.kill('SIGTERM') calls made by the explicit timer
  chunks,       \* the output chunks that have arrived so far, in order:
                \* [stream, data]
  stdout,       \* the verifier's stdout buffer (sequence of chunks)
  stderr,       \* the verifier's stderr buffer (sequence of chunks)
  script,       \* what the command does when it runs to its end, for a
                \* deterministic command: [code, out, err]
  earlier       \* the settled promises of earlier verify calls, in order

(***************************************************************************)
(* Agent session adapter: state                                            *)
(***************************************************************************)
VARIABLES
  apc,          \* where execute is: "start", "createSession", "prompting",
                \* "awaitEvents", "closing", "awaitClose", "done"
  server,       \* the server handle: "none", "open", "closed", "closeFailed"
  closeCalls,   \* calls of server.close() made so far
  prompt,       \* client.session.prompt: "notsent", "pending", "ok", "failed"
  cpc,          \* where captureMetrics is: "none", "subscribing",
                \* "consuming", "returning" (out of the loop, awaiting the
                \* iterator's return()), or how it ended: "idle", "error",
                \* "ended", "caught"
  eventPromise, \* the promise captureMetrics returns: [state, value]
  metrics,      \* the Metrics object of this execution
  delivered,    \* the events the stream has delivered so far, in order
  held,         \* the outcome of runTask while the finally block runs
  permissions,  \* task.permissions: [mode, read, write, bash, web_fetch]
  agentType,    \* the agent named in the prompt request: "none" before
                \* runTask selects it, then "plan" or "build"
  crashed,      \* the runtime has ended the process for a rejection of the
                \* event promise that nothing handled
  outcome       \* the outcome of execute: [kind, value]

(***************************************************************************)
(* Run and verify commands, Runner: state                                  *)
(***************************************************************************)
VARIABLES
  option,       \* the command line: "task", "suite", "none" (run command),
                \* "verify" (verify command), "init" (init command); "idle":
                \* no command was given
  skipVerify,   \* !options.verify
  tasks,        \* the ids of the tasks to run, in the task loader's order
  rpc,          \* where the command is: "cli", "loop", "resolve",
                \* "provision", "agent", "verify", "construct", "persisted",
                \* "returned", "raised", "rejected", "summarised",
                \* "verifying", "verified", "exited"
  cur,          \* the position in tasks of the task being run
  agentStep,    \* the outcome of agent.execute for this task: [kind, value]
  verifyStep,   \* the outcome of Verifier.verify for this task: [kind, value]
  invoked,      \* Verifier.verify was invoked for this task
  persisted,    \* the Benchmark Results persisted so far, in order
  skipped,      \* the tasks a suite logged and skipped after a fault
  raised,       \* the fault runTask, runAll or runCategory raised to its
                \* caller: None or Some(e)
  summary,      \* the suite summary: None or Some([total, passed, failed])
  reported,     \* what logger.taskResult was given: None or Some(r)
  exitStatus,   \* the status the process ended with (process.exit, or
                \* the runtime on an unhandled rejection): None or Some(n)
  orphaned      \* an agent call has raised on its prompt and left its
                \* captureMetrics reading the event stream, with nothing
                \* awaiting eventPromise

(***************************************************************************)
(* Result collector: state                                                 *)
(***************************************************************************)
VARIABLES
  dirFiles,     \* the entries of the results directory, in readdir order
  kpc,          \* where the collector is: "idle"; collectAndWrite at
                \* "start", "loop", "collected", "written" (returned),
                \* "failed" (rejected), "exited" (the collect command has
                \* exited); writeCSV called on its own at "write", "wrote"
                \* (returned), "rejected"
  loaded,       \* how many of the '.json' files the loop has gone through
  results,      \* the results array of collectResults
  warned,       \* logger.warn calls made so far
  csv           \* the rows written to the CSV file: None or Some(rows)

avars == <<apc, server, closeCalls, prompt, cpc, eventPromise, metrics,
           delivered, held, permissions, agentType, crashed, outcome>>

rvars == <<option, skipVerify, tasks, rpc, cur, agentStep, verifyStep,
           invoked, persisted, skipped, raised, summary, reported,
           exitStatus, orphaned>>

kvars == <<dirFiles, kpc, loaded, results, warned, csv>>

vvars == <<command, timeout, vpc, promise, attempts, proc, exitCode,
           spawnError, errorEmitted, signalled, closed, spawnTimer,
           timeoutId, deadline, kills, chunks, stdout, stderr, script,
           earlier>>

(***************************************************************************)
(* Verifier: inputs                                                        *)
(***************************************************************************)
\* the characters of a command text: a plain character, a blank, a quote
Chars == {"a", " ", "\""}

RECURSIVE SeqsUpTo(_, _)
SeqsUpTo(S, n) ==
  IF n = 0 THEN {<<>>}
  ELSE LET shorter == SeqsUpTo(S, n - 1)
       IN  shorter \cup {Append(s, c) : s \in shorter, c \in S}

Timeouts == 1..MaxTimeout
\* exit codes of a child that exits on its own
ExitCodes == {0, 1, 2}
\* the errors with which the spawn primitive reports a failed spawn
SpawnErrors == {"ENOENT", "EACCES"}
StdoutChunks == {"o1", "o2"}
StderrChunks == {"e1"}

(***************************************************************************)
(* Verifier: command tokenisation (lines 34-40)                            *)
(***************************************************************************)
IsSpace(c) == c = " "
IsQuote(c) == c = "\""
IsPlain(c) == ~IsSpace(c) /\ ~IsQuote(c)

\* [^\s"]+ : the index after the longest run of plain characters from i
RECURSIVE RunEnd(_, _)
RunEnd(s, i) ==
  IF i <= Len(s) /\ IsPlain(s[i]) THEN RunEnd(s, i + 1) ELSE i

\* the index of the first quote at or after i, 0 when there is none
RECURSIVE NextQuote(_, _)
NextQuote(s, i) ==
  IF i > Len(s) THEN 0
  ELSE IF IsQuote(s[i]) THEN i
  ELSE NextQuote(s, i + 1)

\* (?:[^\s"]+|"[^"]*")+ : the index after the longest match that starts at i
\* (i itself when nothing matches there)
RECURSIVE MatchEnd(_, _)
MatchEnd(s, i) ==
  IF i > Len(s) THEN i
  ELSE IF IsPlain(s[i]) THEN MatchEnd(s, RunEnd(s, i))
  ELSE IF IsQuote(s[i]) /\ NextQuote(s, i + 1) # 0
       THEN MatchEnd(s, NextQuote(s, i + 1) + 1)
  ELSE i

\* String.prototype.match with the g flag: every match, left to right
RECURSIVE MatchAll(_, _)
MatchAll(s, i) ==
  IF i > Len(s) THEN <<>>
  ELSE LET e == MatchEnd(s, i)
       IN  IF e > i THEN <<SubSeq(s, i, e - 1)>> \o MatchAll(s, e)
           ELSE MatchAll(s, i + 1)

\* task.verification.command.match(...) || []
commandParts(cmd) == MatchAll(cmd, 1)

\* part.replace(/"/g, '')
StripQuotes(part) == SelectSeq(part, LAMBDA c : ~IsQuote(c))

program(cmd) == StripQuotes(commandParts(cmd)[1])
args(cmd) ==
  LET parts == commandParts(cmd)
  IN  [k \in 1..(Len(parts) - 1) |-> StripQuotes(parts[k + 1])]

(***************************************************************************)
(* Verifier: errors, results and the promise                               *)
(***************************************************************************)
\* An error is [type, message]; a message is the sequence of the pieces of
\* its template literal.
VerificationError(msg) == [type |-> "VerificationError", message |-> msg]

EmptyCommandError == VerificationError(<<"Empty verification command">>)

TimeoutErr(t) ==
  VerificationError(<<"Verification command timed out after ", ToString(t),
                      " seconds">>)

ExecError(osMessage) ==
  VerificationError(<<"Failed to execute verification command: ", osMessage>>)

\* the error spawn('') throws (its code is ERR_INVALID_ARG_VALUE)
InvalidArgError ==
  [type |-> "TypeError",
   message |-> <<"The argument 'file' cannot be empty. Received ''">>]

\* a sequence of characters as one string
RECURSIVE Text(_)
Text(chars) == IF chars = <<>> THEN "" ELSE Head(chars) \o Text(Tail(chars))

\* the message of the error a failed system call raises
OsMessage(syscall, code) == syscall \o " " \o code

\* the system call a failed spawn names: "spawn" and the program
SpawnSyscall(cmd) == "spawn " \o Text(program(cmd))

\* a result that counts every exit with a code as a pass
VerificationResultAnyCode(code, out, err) ==
  [passed |-> code # None, exitCode |-> code, stdout |-> out, stderr |-> err]

\* a result that also counts an exit without a code (a signal) as a pass
VerificationResultSignalPasses(code, out, err) ==
  [passed |-> code \in {Some(0), None}, exitCode |-> code, stdout |-> out,
   stderr |-> err]

\* the object the 'close' handler resolves with (durationSecs left out)
VerificationResult(code, out, err) ==
  [passed |-> code = Some(0), exitCode |-> code, stdout |-> out, stderr |-> err]

\* a promise not yet settled carries no value
Pending == [state |-> "pending", value |-> [type |-> "undefined"]]

\* a settle that lets a later resolve/reject replace the outcome
SettleOverwrite(p, state, value) == [state |-> state, value |-> value]

\* resolve/reject of a promise: the first call settles it, later calls do
\* nothing
Settle(p, state, value) ==
  IF p.state = "pending" THEN [state |-> state, value |-> value] ELSE p

Resolve(p, value) == Settle(p, "resolved", value)
Reject(p, error) == Settle(p, "rejected", error)

\* an 'error' handler that takes every error for a timeout
OnErrorAlwaysTimeout(p, code, message, t) == Reject(p, TimeoutErr(t))

\* the 'error' handler (lines 71-84)
OnError(p, code, message, t) ==
  IF code = "ETIMEDOUT" THEN Reject(p, TimeoutErr(t))
  ELSE Reject(p, ExecError(message))

(***************************************************************************)
(* Agent session adapter: events, metrics, errors and results              *)
(***************************************************************************)
\* most events one event stream delivers
MaxEvents == 2

TextPart(t) == [type |-> "text", text |-> t]
ToolPart == [type |-> "tool", text |-> ""]

\* what a message says of its usage: token counts and a cost, or neither
Usages ==
  {[tokens |-> Some([input |-> 1, output |-> 2]), cost |-> Some(3)],
   [tokens |-> None, cost |-> None]}

\* message.updated events: the message's role, token counts and cost, and
\* the parts that come with it
MessageEvents ==
  { [type |-> "message.updated", role |-> r, tokens |-> u.tokens,
     cost |-> u.cost, parts |-> ps] :
      r \in {"assistant", "user"},
      u \in Usages,
      ps \in {<<TextPart("hello")>>,
              <<TextPart(""), ToolPart, TextPart("done")>>} }

IdleEvent == [type |-> "session.idle"]
ErrorEvent(m) == [type |-> "session.error", message |-> m]
\* an event of a type captureMetrics has no case for
UnknownEvent == [type |-> "session.updated"]
\* the events of types captureMetrics has no case for
OtherEvents == {UnknownEvent, [type |-> "message.part.updated"]}

\* the errors the SDK's calls fail with
SdkErrors == {[type |-> "Error", message |-> <<"ECONNREFUSED">>]}

AgentError(msg) == [type |-> "AgentError", message |-> msg]

\* `${error}` of an Error object: its name, ": ", its message
ErrorToString(e) == <<e.type, ": ">> \o e.message

\* line 136: new AgentError(`OpenCode execution failed: ${error}`)
ExecutionFailed(e) ==
  AgentError(<<"OpenCode execution failed: ">> \o ErrorToString(e))

\* lines 179-180: event.properties?.message || 'Unknown error'
SessionError(m) ==
  AgentError(<<"Session error: ",
               IF m = None THEN "Unknown error" ELSE CHOOSE x \in m : TRUE>>)

\* lines 83-89
NewMetrics ==
  [iterations |-> 0, inputTokens |-> 0, outputTokens |-> 0, cost |-> 0,
   output |-> <<>>]

\* lines 219-223: the texts of the parts that are text and not empty
RECURSIVE Texts(_)
Texts(parts) ==
  IF parts = <<>> THEN <<>>
  ELSE LET part == Head(parts)
       IN  (IF part.type = "text" /\ part.text # "" THEN <<part.text>> ELSE <<>>)
           \o Texts(Tail(parts))

\* lines 208-216: msg.tokens.input || 0, msg.tokens.output || 0 and
\* msg.cost, each 0 when the message does not have it
InputTokens(event) ==
  IF event.tokens = None THEN 0 ELSE (CHOOSE t \in event.tokens : TRUE).input

OutputTokens(event) ==
  IF event.tokens = None THEN 0 ELSE (CHOOSE t \in event.tokens : TRUE).output

Cost(event) ==
  IF event.cost = None THEN 0 ELSE CHOOSE c \in event.cost : TRUE

\* a handleMessageUpdate that counts the messages of every role
handleMessageUpdateAnyRole(event, m) ==
  [iterations   |-> m.iterations + 1,
   inputTokens  |-> m.inputTokens + InputTokens(event),
   outputTokens |-> m.outputTokens + OutputTokens(event),
   cost         |-> m.cost + Cost(event),
   output       |-> m.output \o Texts(event.parts)]

\* handleMessageUpdate (lines 199-227)
handleMessageUpdate(event, m) ==
  IF event.role = "assistant"
  THEN [iterations   |-> m.iterations + 1,
        inputTokens  |-> m.inputTokens + InputTokens(event),
        outputTokens |-> m.outputTokens + OutputTokens(event),
        cost         |-> m.cost + Cost(event),
        output       |-> m.output \o Texts(event.parts)]
  ELSE m

\* metrics.output.join('\n')
RECURSIVE Join(_)
Join(out) ==
  IF Len(out) <= 1 THEN out
  ELSE <<Head(out), "\n">> \o Join(Tail(out))

\* the Agent Result of lines 123-132 (durationSecs, agentVersion and
\* modelName left out)
AgentResult(m) ==
  [success |-> TRUE, output |-> Join(m.output), iterations |-> m.iterations,
   tokensUsed |-> m.inputTokens + m.outputTokens, cost |-> m.cost]

NoOutcome == [kind |-> "none", value |-> [type |-> "undefined"]]
Returned(v) == [kind |-> "returned", value |-> v]
Raised(e) == [kind |-> "raised", value |-> e]

\* no command has been given
RIdle ==
  /\ option = "idle"
  /\ skipVerify = FALSE
  /\ tasks = <<>>
  /\ rpc = "cli"
  /\ cur = 0
  /\ agentStep = NoOutcome
  /\ verifyStep = NoOutcome
  /\ invoked = FALSE
  /\ persisted = <<>>
  /\ skipped = <<>>
  /\ raised = None
  /\ summary = None
  /\ reported = None
  /\ exitStatus = None
  /\ orphaned = FALSE

\* the collector before collectAndWrite is called
KIdle ==
  /\ dirFiles = <<>>
  /\ kpc = "idle"
  /\ loaded = 0
  /\ results = <<>>
  /\ warned = 0
  /\ csv = None

\* task.permissions: every combination of the permission modes a task file
\* may name and the four tool flags
PermissionSpecs ==
  [mode : {"default", "dontAsk", "bypassPermissions"}, read : BOOLEAN,
   write : BOOLEAN, bash : BOOLEAN, web_fetch : BOOLEAN]

\* the adapter before execute is called, for a task with the permissions p
AStart(p) ==
  /\ apc = "start"
  /\ server = "none"
  /\ closeCalls = 0
  /\ prompt = "notsent"
  /\ cpc = "none"
  /\ eventPromise = Pending
  /\ metrics = NewMetrics
  /\ delivered = <<>>
  /\ held = NoOutcome
  /\ permissions = p
  /\ agentType = "none"
  /\ crashed = FALSE
  /\ outcome = NoOutcome

\* the agent before execute is called, for a task file that sets no
\* permissions: only reading is allowed
AIdle ==
  AStart([mode |-> "default", read |-> TRUE, write |-> FALSE, bash |-> FALSE,
          web_fetch |-> FALSE])

vars == <<vvars, avars, rvars, kvars>>

(***************************************************************************)
(* Verifier: Init and the steps of one verify call                         *)
(***************************************************************************)
\* a command that writes nothing and exits with 0
SilentScript == [code |-> 0, out |-> <<>>, err |-> <<>>]

VInit ==
  /\ command \in SeqsUpTo(Chars, MaxCmdLen)
  /\ timeout \in Timeouts
  /\ vpc = "start"
  /\ promise = Pending
  /\ attempts = 0
  /\ proc = "none"
  /\ exitCode = None
  /\ spawnError = None
  /\ errorEmitted = FALSE
  /\ signalled = FALSE
  /\ closed = FALSE
  /\ spawnTimer = FALSE
  /\ timeoutId = FALSE
  /\ deadline = FALSE
  /\ kills = 0
  /\ chunks = <<>>
  /\ stdout = <<>>
  /\ stderr = <<>>
  /\ script = SilentScript
  /\ earlier = <<>>

\* the verifier before verify is called, for one task
VIdle ==
  /\ command = <<"a">>
  /\ timeout = 1
  /\ vpc = "start"
  /\ promise = Pending
  /\ attempts = 0
  /\ proc = "none"
  /\ exitCode = None
  /\ spawnError = None
  /\ errorEmitted = FALSE
  /\ signalled = FALSE
  /\ closed = FALSE
  /\ spawnTimer = FALSE
  /\ timeoutId = FALSE
  /\ deadline = FALSE
  /\ kills = 0
  /\ chunks = <<>>
  /\ stdout = <<>>
  /\ stderr = <<>>
  /\ script = SilentScript
  /\ earlier = <<>>

input == <<command, timeout, script, earlier>>
failure == <<spawnError, errorEmitted>>
buffers == <<chunks, stdout, stderr>>
timers == <<spawnTimer, timeoutId, deadline, kills>>

\* a verify that does not check for an empty token list and spawns anyway
VerifyEmptySpawns ==
  /\ vpc = "start"
  /\ Len(commandParts(command)) = 0
  /\ vpc' = "called"
  /\ proc' = "running"
  /\ spawnTimer' = TRUE
  /\ timeoutId' = TRUE
  /\ UNCHANGED <<input, promise, attempts, exitCode, failure,
                 signalled, closed, deadline, kills, buffers>>
  /\ UNCHANGED <<avars, rvars, kvars>>

\* verify with a command that has no token: the throw of line 36 rejects the
\* async function's promise before anything is spawned
VerifyEmpty ==
  /\ vpc = "start"
  /\ Len(commandParts(command)) = 0
  /\ vpc' = "called"
  /\ promise' = [state |-> "rejected", value |-> EmptyCommandError]
  /\ UNCHANGED <<input, attempts, proc, exitCode, failure, signalled,
                 closed, timers, buffers>>
  /\ UNCHANGED <<avars, rvars, kvars>>

\* verify with a command whose program is the empty string (a first token of
\* quotes only): spawn throws inside the promise executor, which rejects the
\* promise with the thrown error; lines 49-99 do not run
VerifyInvalidProgram ==
  /\ vpc = "start"
  /\ Len(commandParts(command)) > 0
  /\ program(command) = <<>>
  /\ vpc' = "called"
  /\ promise' = [state |-> "rejected", value |-> InvalidArgError]
  /\ UNCHANGED <<input, attempts, proc, exitCode, failure, signalled,
                 closed, timers, buffers>>
  /\ UNCHANGED <<avars, rvars, kvars>>

\* verify with a program to run (lines 43-99): spawn it, with the spawn
\* primitive's own timeout, register the handlers and arm the explicit timer.
\* The spawn succeeds, or fails with an error the child emits later.
VerifySpawn ==
  /\ vpc = "start"
  /\ Len(commandParts(command)) > 0
  /\ program(command) # <<>>
  /\ vpc' = "called"
  /\ \E r \in {"ok"} \cup SpawnErrors :
       /\ proc' = IF r = "ok" THEN "running" ELSE "spawnfail"
       /\ spawnError' = IF r = "ok" THEN None ELSE Some(r)
  /\ spawnTimer' = TRUE
  /\ timeoutId' = TRUE
  /\ UNCHANGED <<input, promise, attempts, exitCode, errorEmitted, signalled,
                 closed, deadline, kills, buffers>>
  /\ UNCHANGED <<avars, rvars, kvars>>

\* a stdout handler that puts the new chunk in front of the buffer
StdoutDataPrepends ==
  /\ proc \in {"running", "exited", "killed"}
  /\ ~closed
  /\ Len(chunks) < MaxChunks
  /\ \E d \in StdoutChunks :
       /\ stdout' = <<d>> \o stdout
       /\ chunks' = Append(chunks, [stream |-> "stdout", data |-> d])
  /\ UNCHANGED <<input, vpc, promise, attempts, proc, exitCode, failure,
                 signalled, closed, timers, stderr>>
  /\ UNCHANGED <<avars, rvars, kvars>>

\* proc.stdout 'data' (lines 52-54)
StdoutData ==
  /\ proc \in {"running", "exited", "killed"}
  /\ ~closed
  /\ Len(chunks) < MaxChunks
  /\ \E d \in StdoutChunks :
       /\ stdout' = Append(stdout, d)
       /\ chunks' = Append(chunks, [stream |-> "stdout", data |-> d])
  /\ UNCHANGED <<input, vpc, promise, attempts, proc, exitCode, failure,
                 signalled, closed, timers, stderr>>
  /\ UNCHANGED <<avars, rvars, kvars>>

\* proc.stderr 'data' (lines 56-58)
StderrData ==
  /\ proc \in {"running", "exited", "killed"}
  /\ ~closed
  /\ Len(chunks) < MaxChunks
  /\ \E d \in StderrChunks :
       /\ stderr' = Append(stderr, d)
       /\ chunks' = Append(chunks, [stream |-> "stderr", data |-> d])
  /\ UNCHANGED <<input, vpc, promise, attempts, proc, exitCode, failure,
                 signalled, closed, timers, stdout>>
  /\ UNCHANGED <<avars, rvars, kvars>>

\* the child emits 'error' for the failed spawn: the 'error' handler runs
SpawnErrorEvent ==
  /\ spawnError # None
  /\ ~errorEmitted
  /\ \E e \in spawnError :
       promise' = OnError(promise, e, OsMessage(SpawnSyscall(command), e),
                          timeout)
  /\ attempts' = attempts + 1
  /\ errorEmitted' = TRUE
  /\ UNCHANGED <<input, vpc, proc, exitCode, spawnError, signalled, closed,
                 timers, buffers>>
  /\ UNCHANGED <<avars, rvars, kvars>>

\* the child exits on its own with exit code c; the spawn primitive disarms
\* its timeout timer on the child's exit
ProcExits ==
  /\ proc = "running"
  /\ \E c \in ExitCodes : exitCode' = Some(c)
  /\ proc' = "exited"
  /\ spawnTimer' = FALSE
  /\ UNCHANGED <<input, vpc, promise, attempts, failure, signalled,
                 closed, timeoutId, deadline, kills, buffers>>
  /\ UNCHANGED <<avars, rvars, kvars>>

\* the child is ended by a signal, the SIGTERM of one of verify's timers or
\* one from elsewhere (the child itself, another process): it has no exit
\* code
ProcKilled ==
  /\ proc = "running"
  /\ exitCode' = None
  /\ proc' = "killed"
  /\ spawnTimer' = FALSE
  /\ UNCHANGED <<input, vpc, promise, attempts, failure, signalled,
                 closed, timeoutId, deadline, kills, buffers>>
  /\ UNCHANGED <<avars, rvars, kvars>>

\* the code the 'close' event carries: the exit code, null after a signal,
\* the negated errno after a failed spawn (ENOENT is 2, EACCES is 13)
CloseCode ==
  IF proc = "spawnfail"
  THEN {IF e = "ENOENT" THEN -2 ELSE -13 : e \in spawnError}
  ELSE exitCode

\* the child emits 'close': both 'close' handlers run, in the order they were
\* registered (lines 60-69, then lines 97-99)
CloseEvent ==
  /\ \/ proc \in {"exited", "killed"}
     \/ proc = "spawnfail" /\ errorEmitted
  /\ ~closed
  /\ closed' = TRUE
  /\ promise' = Resolve(promise, VerificationResult(CloseCode, stdout, stderr))
  /\ attempts' = attempts + 1
  /\ timeoutId' = FALSE
  /\ UNCHANGED <<input, vpc, proc, exitCode, failure, signalled,
                 spawnTimer, deadline, kills, buffers>>
  /\ UNCHANGED <<avars, rvars, kvars>>

\* the declared timeout elapses: from now on the armed timers may fire. A
\* failed spawn's 'error' is emitted in the tick after the spawn, before any
\* timer can run.
DeadlineElapses ==
  /\ vpc = "called"
  /\ spawnError # None => errorEmitted
  /\ spawnTimer \/ timeoutId
  /\ ~deadline
  /\ deadline' = TRUE
  /\ UNCHANGED <<input, vpc, promise, attempts, proc, exitCode, failure,
                 signalled, closed, spawnTimer, timeoutId, kills, buffers>>
  /\ UNCHANGED <<avars, rvars, kvars>>

\* the outcomes of sending a signal to a running child: sent, or the error
\* with which the kill primitive reports a signal it could not send
KillResults == {"ok", "EPERM"}

\* the spawn primitive's timeout fires: it sends the child SIGTERM. A signal
\* that cannot be sent makes the child emit 'error', whose handler runs.
SpawnTimeoutFires ==
  /\ spawnTimer
  /\ deadline
  /\ spawnTimer' = FALSE
  /\ IF proc = "running"
     THEN \E k \in KillResults :
            IF k = "ok"
            THEN /\ signalled' = TRUE
                 /\ UNCHANGED <<promise, attempts>>
            ELSE /\ promise' = OnError(promise, k, OsMessage("kill", k), timeout)
                 /\ attempts' = attempts + 1
                 /\ UNCHANGED signalled
     ELSE UNCHANGED <<promise, attempts, signalled>>
  /\ UNCHANGED <<input, vpc, proc, exitCode, failure, closed, timeoutId,
                 deadline, kills, buffers>>
  /\ UNCHANGED <<avars, rvars, kvars>>

\* the explicit timer fires (lines 87-95): proc.kill('SIGTERM'), then reject
TimeoutFires ==
  /\ timeoutId
  /\ deadline
  /\ timeoutId' = FALSE
  /\ kills' = kills + 1
  /\ IF proc = "running"
     THEN \E k \in KillResults :
            IF k = "ok"
            THEN /\ signalled' = TRUE
                 /\ promise' = Reject(promise, TimeoutErr(timeout))
                 /\ attempts' = attempts + 1
            ELSE /\ promise' = Reject(OnError(promise, k, OsMessage("kill", k),
                                              timeout),
                                      TimeoutErr(timeout))
                 /\ attempts' = attempts + 2
                 /\ UNCHANGED signalled
     ELSE /\ promise' = Reject(promise, TimeoutErr(timeout))
          /\ attempts' = attempts + 1
          /\ UNCHANGED signalled
  /\ UNCHANGED <<input, vpc, proc, exitCode, failure, closed, spawnTimer,
                 deadline, buffers>>
  /\ UNCHANGED <<avars, rvars, kvars>>

VNext ==
  \/ VerifyEmpty
  \/ VerifyInvalidProgram
  \/ VerifySpawn
  \/ StdoutData
  \/ StderrData
  \/ SpawnErrorEvent
  \/ ProcExits
  \/ ProcKilled
  \/ CloseEvent
  \/ DeadlineElapses
  \/ SpawnTimeoutFires
  \/ TimeoutFires

\* one verify call, for every command and timeout
VerifierInit == VInit /\ AIdle /\ RIdle /\ KIdle

VerifierSpec == VerifierInit /\ [][VNext]_vars

(***************************************************************************)
(* Verifier: properties                                                    *)
(***************************************************************************)
Settled == promise.state # "pending"

\* the child was still running when the declared timeout elapsed (it runs, or
\* a timer's SIGTERM reached it while it ran) and has not exited on its own
\* since
RanPastDeadline ==
  deadline /\ (proc = "running" \/ (proc = "killed" /\ signalled))

\* C1: a verify call whose command is still running when the declared
\* timeout elapses never resolves with a Verification Result, whatever the
\* order of the spawn primitive's kill, the explicit timer and 'close'.
C1_TimeoutNeverResolves ==
  RanPastDeadline => promise.state # "resolved"

\* C2: once a path (close, error, timer) has settled the promise, no later
\* path changes the outcome: the promise keeps its state and its value.
C2_SettledOnce ==
  [][Settled => promise' = promise]_vvars

\* a later path has made a second attempt on a promise the timer had settled
C2_Witness ==
  /\ attempts >= 2
  /\ closed
  /\ promise = [state |-> "rejected", value |-> TimeoutErr(timeout)]

\* C3: the explicit timer never fires (calling proc.kill('SIGTERM')) once
\* the verify call has settled: every settlement path disarms it.
C3_NoTimerAfterSettlement ==
  [][(timeoutId /\ ~timeoutId' /\ kills' = kills + 1) => ~Settled]_vvars

\* C4: when the child exits on its own with code c and verify returns a
\* result, the result has exitCode = c and passed = (c = 0).
C4_ExitCodeVerbatim ==
  (promise.state = "resolved" /\ proc = "exited") =>
     \E c \in exitCode :
        /\ promise.value.exitCode = Some(c)
        /\ promise.value.passed = (c = 0)

\* a child exited with a nonzero code and the result reports it as failed
C4_Witness ==
  /\ promise.state = "resolved"
  /\ proc = "exited"
  /\ exitCode = Some(2)
  /\ promise.value.exitCode = Some(2)
  /\ ~promise.value.passed

\* the command text is empty or holds blanks only
Blank(cmd) == \A k \in 1..Len(cmd) : IsSpace(cmd[k])

\* C5: a command that tokenises to no token (an empty or blank command in
\* particular) makes verify fail with a VerificationError; no child is
\* spawned and no timer is armed.
C5_EmptyCommandFails ==
  (vpc = "called" /\ (Blank(command) \/ Len(commandParts(command)) = 0)) =>
     /\ promise = [state |-> "rejected", value |-> EmptyCommandError]
     /\ proc = "none"
     /\ ~spawnTimer
     /\ ~timeoutId

\* verify has been called with a command of blanks
C5_Witness ==
  /\ vpc = "called"
  /\ Len(command) = 2
  /\ Blank(command)
  /\ promise.state = "rejected"

\* C6: when the spawn fails (ENOENT, EACCES), verify fails with a
\* VerificationError that wraps the OS error message and is not the timeout
\* error; it never returns a result.
C6_SpawnFailureWrapped ==
  (proc = "spawnfail" /\ Settled) =>
     /\ promise.state = "rejected"
     /\ promise.value.type = "VerificationError"
     /\ \E e \in spawnError :
          promise.value.message =
            <<"Failed to execute verification command: ",
              OsMessage(SpawnSyscall(command), e)>>
     /\ promise.value # TimeoutErr(timeout)

\* a failed spawn has rejected the call, and the later 'close' has not
\* changed that
C6_Witness ==
  /\ proc = "spawnfail"
  /\ command = <<"a", "a">>
  /\ spawnError = Some("ENOENT")
  /\ closed
  /\ promise.state = "rejected"
  /\ promise.value = ExecError("spawn aa ENOENT")

(***************************************************************************)
(* Agent session adapter: the steps of one execute call                    *)
(***************************************************************************)
session == <<prompt, cpc, eventPromise, metrics, delivered>>

selection == <<permissions, agentType>>

\* selectAgentType with the test on the read flag instead of the bash flag
selectAgentTypeByRead(p) ==
  IF ~p.write /\ ~p.read THEN "plan" ELSE "build"

\* selectAgentType (lines 143-149): 'plan' when the task may neither write
\* nor run bash, 'build' otherwise
selectAgentType(p) ==
  IF ~p.write /\ ~p.bash THEN "plan" ELSE "build"

\* execute: createOpencode succeeds (line 46) and runTask starts
CreateOpencodeOk ==
  /\ ~crashed
  /\ apc = "start"
  /\ server' = "open"
  /\ apc' = "createSession"
  /\ UNCHANGED <<closeCalls, session, held, outcome>>
  /\ UNCHANGED <<selection, crashed>>
  /\ UNCHANGED <<vvars, rvars, kvars>>

\* execute: createOpencode fails (line 46, outside every try): execute
\* fails with the SDK's error and there is no handle to close
CreateOpencodeFails ==
  /\ ~crashed
  /\ apc = "start"
  /\ \E e \in SdkErrors : outcome' = Raised(e)
  /\ apc' = "done"
  /\ UNCHANGED <<server, closeCalls, session, held>>
  /\ UNCHANGED <<selection, crashed>>
  /\ UNCHANGED <<vvars, rvars, kvars>>

\* runTask: session.create succeeds (lines 76-81); the metrics are created,
\* captureMetrics is called and runs up to its subscribe call (line 95), and
\* the prompt is sent (line 100)
SessionCreateOk ==
  /\ ~crashed
  /\ apc = "createSession"
  /\ metrics' = NewMetrics
  /\ cpc' = "subscribing"
  /\ prompt' = "pending"
  /\ apc' = "prompting"
  /\ agentType' = selectAgentType(permissions)
  /\ UNCHANGED <<server, closeCalls, eventPromise, delivered, held, outcome,
                 permissions, crashed>>
  /\ UNCHANGED <<vvars, rvars, kvars>>

\* runTask: session.create fails (line 76, before the try of line 97): the
\* SDK's error leaves runTask as it is and execute's finally block runs
SessionCreateFails ==
  /\ ~crashed
  /\ apc = "createSession"
  /\ \E e \in SdkErrors : held' = Raised(e)
  /\ apc' = "closing"
  /\ UNCHANGED <<server, closeCalls, session, outcome>>
  /\ UNCHANGED <<selection, crashed>>
  /\ UNCHANGED <<vvars, rvars, kvars>>

\* captureMetrics: event.subscribe succeeds (line 163)
SubscribeOk ==
  /\ ~crashed
  /\ cpc = "subscribing"
  /\ cpc' = "consuming"
  /\ UNCHANGED <<apc, server, closeCalls, prompt, eventPromise, metrics,
                 delivered, held, outcome>>
  /\ UNCHANGED <<selection, crashed>>
  /\ UNCHANGED <<vvars, rvars, kvars>>

\* captureMetrics: event.subscribe fails; the catch of lines 187-193 swallows
\* an error that is no AgentError and captureMetrics returns
SubscribeFails ==
  /\ ~crashed
  /\ cpc = "subscribing"
  /\ cpc' = "caught"
  /\ eventPromise' = Resolve(eventPromise, [type |-> "undefined"])
  /\ UNCHANGED <<apc, server, closeCalls, prompt, metrics, delivered, held,
                 outcome>>
  /\ UNCHANGED <<selection, crashed>>
  /\ UNCHANGED <<vvars, rvars, kvars>>

\* the stream delivers a message.updated event (lines 170-172)
MessageUpdated ==
  /\ ~crashed
  /\ cpc = "consuming"
  /\ Len(delivered) < MaxEvents
  /\ \E event \in MessageEvents :
       /\ metrics' = handleMessageUpdate(event, metrics)
       /\ delivered' = Append(delivered, event)
  /\ UNCHANGED <<apc, server, closeCalls, prompt, cpc, eventPromise, held,
                 outcome>>
  /\ UNCHANGED <<selection, crashed>>
  /\ UNCHANGED <<vvars, rvars, kvars>>

\* a captureMetrics that settles on session.idle and goes on reading events
SessionIdleKeepsReading ==
  /\ ~crashed
  /\ cpc = "consuming"
  /\ Len(delivered) < MaxEvents
  /\ delivered' = Append(delivered, IdleEvent)
  /\ eventPromise' = Resolve(eventPromise, [type |-> "undefined"])
  /\ UNCHANGED <<apc, server, closeCalls, prompt, cpc, metrics, held,
                 outcome>>
  /\ UNCHANGED <<selection, crashed>>
  /\ UNCHANGED <<vvars, rvars, kvars>>

\* the stream delivers session.idle (lines 174-176): the return leaves the
\* for-await loop. A stream whose iterator has no return method lets
\* captureMetrics return at once; otherwise the iterator's return() is
\* called and awaited first.
SessionIdle ==
  /\ ~crashed
  /\ cpc = "consuming"
  /\ Len(delivered) < MaxEvents
  /\ delivered' = Append(delivered, IdleEvent)
  /\ \/ /\ cpc' = "idle"
        /\ eventPromise' = Resolve(eventPromise, [type |-> "undefined"])
     \/ /\ cpc' = "returning"
        /\ UNCHANGED eventPromise
  /\ UNCHANGED <<apc, server, closeCalls, prompt, metrics, held, outcome>>
  /\ UNCHANGED <<selection, crashed>>
  /\ UNCHANGED <<vvars, rvars, kvars>>

\* the stream delivers session.error (lines 178-180): captureMetrics throws
\* an AgentError, which leaves the for-await loop and which its catch
\* rethrows (lines 188-190). A stream whose iterator has no return method
\* lets the throw reach the catch at once; otherwise the iterator's return()
\* is called and awaited first.
SessionErrorEvent ==
  /\ ~crashed
  /\ cpc = "consuming"
  /\ Len(delivered) < MaxEvents
  /\ \E m \in {Some("model unavailable"), None} :
       /\ delivered' = Append(delivered, ErrorEvent(m))
       /\ \/ /\ cpc' = "error"
             /\ eventPromise' = Reject(eventPromise, SessionError(m))
          \/ /\ cpc' = "returning"
             /\ UNCHANGED eventPromise
  /\ UNCHANGED <<apc, server, closeCalls, prompt, metrics, held, outcome>>
  /\ UNCHANGED <<selection, crashed>>
  /\ UNCHANGED <<vvars, rvars, kvars>>

\* the iterator's return() settles after session.idle or session.error took
\* captureMetrics out of the loop: captureMetrics returns after session.idle
\* (a return() that fails is swallowed by the catch of lines 187-193), and
\* throws the AgentError after session.error (a failure of return() does not
\* replace the throw that left the loop)
StreamReturnSettles ==
  /\ ~crashed
  /\ cpc = "returning"
  /\ LET last == delivered[Len(delivered)]
     IN  IF last.type = "session.idle"
         THEN /\ cpc' = "idle"
              /\ eventPromise' = Resolve(eventPromise, [type |-> "undefined"])
         ELSE /\ cpc' = "error"
              /\ eventPromise' = Reject(eventPromise,
                                        SessionError(last.message))
  /\ UNCHANGED <<apc, server, closeCalls, prompt, metrics, delivered, held,
                 outcome>>
  /\ UNCHANGED <<selection, crashed>>
  /\ UNCHANGED <<vvars, rvars, kvars>>

\* a captureMetrics that takes an event of another type for the end of the
\* session
OtherEventEndsStream ==
  /\ ~crashed
  /\ cpc = "consuming"
  /\ Len(delivered) < MaxEvents
  /\ \E event \in OtherEvents : delivered' = Append(delivered, event)
  /\ cpc' = "ended"
  /\ eventPromise' = Resolve(eventPromise, [type |-> "undefined"])
  /\ UNCHANGED <<apc, server, closeCalls, prompt, metrics, held, outcome>>
  /\ UNCHANGED <<selection, crashed>>
  /\ UNCHANGED <<vvars, rvars, kvars>>

\* the stream delivers an event of another type (lines 182-184)
OtherEvent ==
  /\ ~crashed
  /\ cpc = "consuming"
  /\ Len(delivered) < MaxEvents
  /\ \E event \in OtherEvents : delivered' = Append(delivered, event)
  /\ UNCHANGED <<apc, server, closeCalls, prompt, cpc, eventPromise, metrics,
                 held, outcome>>
  /\ UNCHANGED <<selection, crashed>>
  /\ UNCHANGED <<vvars, rvars, kvars>>

\* a captureMetrics that fails when the stream ends without session.idle
StreamEndsFails ==
  /\ ~crashed
  /\ cpc = "consuming"
  /\ cpc' = "ended"
  /\ eventPromise' = Reject(eventPromise, AgentError(<<"Event stream ended">>))
  /\ UNCHANGED <<apc, server, closeCalls, prompt, metrics, delivered, held,
                 outcome>>
  /\ UNCHANGED <<selection, crashed>>
  /\ UNCHANGED <<vvars, rvars, kvars>>

\* the stream ends: the for-await loop ends and captureMetrics returns
StreamEnds ==
  /\ ~crashed
  /\ cpc = "consuming"
  /\ cpc' = "ended"
  /\ eventPromise' = Resolve(eventPromise, [type |-> "undefined"])
  /\ UNCHANGED <<apc, server, closeCalls, prompt, metrics, delivered, held,
                 outcome>>
  /\ UNCHANGED <<selection, crashed>>
  /\ UNCHANGED <<vvars, rvars, kvars>>

\* a captureMetrics whose catch rethrows the transport's error
StreamThrowsRejects ==
  /\ ~crashed
  /\ cpc = "consuming"
  /\ cpc' = "caught"
  /\ \E e \in SdkErrors : eventPromise' = Reject(eventPromise, e)
  /\ UNCHANGED <<apc, server, closeCalls, prompt, metrics, delivered, held,
                 outcome>>
  /\ UNCHANGED <<selection, crashed>>
  /\ UNCHANGED <<vvars, rvars, kvars>>

\* the transport throws while the events are iterated: the catch of lines
\* 187-193 swallows the error and captureMetrics returns
StreamThrows ==
  /\ ~crashed
  /\ cpc = "consuming"
  /\ cpc' = "caught"
  /\ eventPromise' = Resolve(eventPromise, [type |-> "undefined"])
  /\ UNCHANGED <<apc, server, closeCalls, prompt, metrics, delivered, held,
                 outcome>>
  /\ UNCHANGED <<selection, crashed>>
  /\ UNCHANGED <<vvars, rvars, kvars>>

\* runTask: session.prompt returns (line 100); runTask goes on to await the
\* event promise (line 117)
PromptReturns ==
  /\ ~crashed
  /\ apc = "prompting"
  /\ prompt' = "ok"
  /\ apc' = "awaitEvents"
  /\ UNCHANGED <<server, closeCalls, cpc, eventPromise, metrics, delivered,
                 held, outcome>>
  /\ UNCHANGED <<selection, crashed>>
  /\ UNCHANGED <<vvars, rvars, kvars>>

\* a runTask that swallows the failure of session.prompt and goes on to await
\* the event promise
PromptFailsSwallowed ==
  /\ ~crashed
  /\ apc = "prompting"
  /\ prompt' = "failed"
  /\ apc' = "awaitEvents"
  /\ UNCHANGED <<server, closeCalls, cpc, eventPromise, metrics, delivered,
                 held, outcome>>
  /\ UNCHANGED <<selection, crashed>>
  /\ UNCHANGED <<vvars, rvars, kvars>>

\* runTask: session.prompt fails; the catch of lines 133-137 wraps the error
PromptFails ==
  /\ ~crashed
  /\ apc = "prompting"
  /\ prompt' = "failed"
  /\ \E e \in SdkErrors : held' = Raised(ExecutionFailed(e))
  /\ apc' = "closing"
  /\ UNCHANGED <<server, closeCalls, cpc, eventPromise, metrics, delivered,
                 outcome>>
  /\ UNCHANGED <<selection, crashed>>
  /\ UNCHANGED <<vvars, rvars, kvars>>

\* runTask: the awaited event promise has settled (line 117). Fulfilled: the
\* Agent Result is built from the metrics (lines 119-132). Rejected: the catch
\* of lines 133-137 wraps the error.
AwaitEventPromise ==
  /\ ~crashed
  /\ apc = "awaitEvents"
  /\ eventPromise.state # "pending"
  /\ held' = IF eventPromise.state = "resolved"
             THEN Returned(AgentResult(metrics))
             ELSE Raised(ExecutionFailed(eventPromise.value))
  /\ apc' = "closing"
  /\ UNCHANGED <<server, closeCalls, session, outcome>>
  /\ UNCHANGED <<selection, crashed>>
  /\ UNCHANGED <<vvars, rvars, kvars>>

\* a finally block that lets execute leave without closing the server
CloseServerSkipped ==
  /\ ~crashed
  /\ apc = "closing"
  /\ outcome' = held
  /\ apc' = "done"
  /\ UNCHANGED <<server, closeCalls, session, held>>
  /\ UNCHANGED <<selection, crashed>>
  /\ UNCHANGED <<vvars, rvars, kvars>>

\* execute's finally block (lines 53-57): server.close() is called and its
\* answer is awaited
CloseServerCalled ==
  /\ ~crashed
  /\ apc = "closing"
  /\ closeCalls' = closeCalls + 1
  /\ apc' = "awaitClose"
  /\ UNCHANGED <<server, session, held, outcome>>
  /\ UNCHANGED <<selection, crashed>>
  /\ UNCHANGED <<vvars, rvars, kvars>>

\* a finally block that lets the failure of server.close() leave execute in
\* place of runTask's outcome
CloseServerFailureRaises ==
  /\ ~crashed
  /\ apc = "awaitClose"
  /\ \/ server' = "closed" /\ outcome' = held
     \/ server' = "closeFailed" /\ \E e \in SdkErrors : outcome' = Raised(e)
  /\ apc' = "done"
  /\ UNCHANGED <<closeCalls, session, held>>
  /\ UNCHANGED <<selection, crashed>>
  /\ UNCHANGED <<vvars, rvars, kvars>>

\* server.close() answers (lines 57-61): a failure of it is logged and
\* dropped; then runTask's outcome leaves execute
CloseServerAnswers ==
  /\ ~crashed
  /\ apc = "awaitClose"
  /\ server' \in {"closed", "closeFailed"}
  /\ outcome' = held
  /\ apc' = "done"
  /\ UNCHANGED <<closeCalls, session, held>>
  /\ UNCHANGED <<selection, crashed>>
  /\ UNCHANGED <<vvars, rvars, kvars>>

\* the event promise is rejected (line 180) while nothing handles the
\* rejection: runTask has not reached its await of the event promise (line
\* 117) while the prompt is pending, and never reaches it once the prompt
\* has failed. No handler for unhandled rejections is installed, and the
\* runtime ends the process.
ProcessTerminates ==
  /\ ~crashed
  /\ eventPromise.state = "rejected"
  /\ prompt \in {"pending", "failed"}
  /\ crashed' = TRUE
  /\ UNCHANGED <<apc, server, closeCalls, session, held, selection, outcome>>
  /\ UNCHANGED <<vvars, rvars, kvars>>

ANext ==
  \/ CreateOpencodeOk
  \/ CreateOpencodeFails
  \/ SessionCreateOk
  \/ SessionCreateFails
  \/ SubscribeOk
  \/ SubscribeFails
  \/ MessageUpdated
  \/ SessionIdle
  \/ SessionErrorEvent
  \/ StreamReturnSettles
  \/ OtherEvent
  \/ StreamEnds
  \/ StreamThrows
  \/ PromptReturns
  \/ PromptFails
  \/ AwaitEventPromise
  \/ CloseServerCalled
  \/ CloseServerAnswers
  \/ ProcessTerminates

\* one execute call
AgentInit == AIdle /\ VIdle /\ RIdle /\ KIdle

AgentSpec == AgentInit /\ [][ANext]_vars

\* the steps of execute that the event loop runs once they are enabled: the
\* continuation of a settled await and the call of server.close() in the
\* finally block. The calls to the agent capability (the prompt, the close)
\* return when the capability answers, if it ever does.
AgentFairSpec ==
  AgentSpec /\ WF_vars(AwaitEventPromise) /\ WF_vars(CloseServerCalled)

(***************************************************************************)
(* Agent session adapter: properties                                       *)
(***************************************************************************)
\* execute has returned or raised
Ended == apc = "done"

\* the piece x occurs in the message msg
Contains(msg, x) == \E k \in 1..Len(msg) : msg[k] = x

\* the stream has delivered a session.error event that carries message x
ErrorDelivered(x) ==
  \E k \in 1..Len(delivered) : delivered[k] = ErrorEvent(Some(x))

\* C7: once execute has returned or raised after acquiring the server
\* handle, server.close() has been called on it, on every exit path.
C7_ClosedOnEveryExit ==
  (outcome.kind # "none" /\ server # "none") =>
     /\ closeCalls = 1
     /\ server \in {"closed", "closeFailed"}

\* session creation failed and the server was closed before execute raised
C7_Witness ==
  /\ Ended
  /\ prompt = "notsent"
  /\ server = "closed"
  /\ outcome.kind = "raised"

\* C8: whenever the stream has delivered a session.error event with message
\* m, whatever the prompt submission did, execute fails with an AgentError
\* whose message contains m and never returns an Agent Result: the process
\* is not ended in its place, and execute ends with that error only.
C8_SessionErrorMessageAlways ==
  \A x \in {"model unavailable"} :
     ErrorDelivered(x) =>
        /\ ~crashed
        /\ outcome.kind # "returned"
        /\ Ended =>
             /\ outcome.kind = "raised"
             /\ outcome.value.type = "AgentError"
             /\ Contains(outcome.value.message, x)

\* C9: when execute fails because the server cannot be started or the
\* session cannot be created (no prompt was ever sent), it fails with an
\* AgentError.
C9_UnreachableIsAgentError ==
  (Ended /\ prompt = "notsent") =>
     /\ outcome.kind = "raised"
     /\ outcome.value.type = "AgentError"

\* C10: once the event stream has completed (session.idle or
\* session.error), execute eventually returns or raises, even if the prompt
\* submission has not returned.
C10_StreamCompletionEnds ==
  cpc \in {"idle", "error"} ~> Ended

\* C11: if the prompt submission fails, execute fails with an AgentError and
\* never returns an Agent Result, whatever events the stream has delivered
\* or delivers afterwards.
C11_PromptFailureFails ==
  prompt = "failed" =>
     /\ outcome.kind # "returned"
     /\ Ended => /\ outcome.kind = "raised"
                 /\ outcome.value.type = "AgentError"
                 /\ \E e \in SdkErrors : outcome = Raised(ExecutionFailed(e))

\* the prompt submission failed after the stream had already delivered
\* session.idle, and execute has raised the wrapped error
C11_Witness ==
  /\ Ended
  /\ prompt = "failed"
  /\ cpc = "idle"
  /\ Len(delivered) > 0
  /\ outcome.kind = "raised"

(***************************************************************************)
(* Run command, verify command and Runner.  The commands are              *)
(* src/src/cli/commands/verify.ts; TaskRunner (core/runner.ts) is not      *)
(* among the repository's files at hand, and its steps follow section 4.3  *)
(* of the specification.                                                   *)
(***************************************************************************)
\* most tasks in one suite
MaxTasks == 2

Last(s) == s[Len(s)]

\* the Agent Results an agent returns
AgentResults ==
  {[success |-> s, output |-> o, iterations |-> 1, tokensUsed |-> 3] :
     s \in BOOLEAN, o \in {"done", "no change"}}

\* the errors agent.execute raises: the AgentErrors of runTask's catch, and
\* an SDK error that createOpencode raised outside that catch
AgentFailures ==
  {ExecutionFailed(e) : e \in SdkErrors}
    \cup {ExecutionFailed(SessionError(Some("model unavailable")))}
    \cup SdkErrors

\* the Verification Results Verifier.verify resolves with
VerifierResults ==
  {VerificationResult(c, <<"o1">>, <<>>) : c \in {Some(0), Some(1), None}}

\* the errors Verifier.verify rejects with: the VerificationErrors of an
\* empty command, of a timeout, of a program that cannot be spawned and of
\* a child that cannot be signalled, and the error spawn throws for an empty
\* program name
VerifierFailures ==
  {EmptyCommandError, TimeoutErr(MaxTimeout), InvalidArgError}
    \cup {ExecError(OsMessage("spawn aaa", e)) : e \in SpawnErrors}
    \cup {ExecError(OsMessage("kill", "EPERM"))}

TaskNotFoundError(msg) == [type |-> "TaskNotFoundError", message |-> msg]
GitError(msg) == [type |-> "GitError", message |-> msg]

\* an overall success that is TRUE whenever verification is skipped
SuccessSkipPasses(agent, verification, skip) ==
  IF agent.kind # "returned" THEN FALSE
  ELSE IF skip THEN TRUE
  ELSE IF verification.kind = "returned" THEN verification.value.passed
  ELSE FALSE

\* an overall success that mirrors the agent's flag even when the Verifier ran
SuccessFromAgent(agent, verification, skip) ==
  IF agent.kind # "returned" THEN FALSE
  ELSE IF verification.kind = "raised" THEN FALSE
  ELSE agent.value.success

\* steps 3-5: the overall success of a task execution
Success(agent, verification, skip) ==
  IF agent.kind # "returned" THEN FALSE
  ELSE IF skip THEN agent.value.success
  ELSE IF verification.kind = "returned" THEN verification.value.passed
  ELSE FALSE

\* steps 3-4: the captured error message, null when nothing failed
ErrorMessage(agent, verification) ==
  IF agent.kind = "raised" THEN Some(agent.value.message)
  ELSE IF verification.kind = "raised" THEN Some(verification.value.message)
  ELSE None

\* a score with partial credit for a failed task
ScorePartial(success) == IF success THEN 100 ELSE 50

\* step 6: the score
Score(success) == IF success THEN 100 ELSE 0

\* step 7: the Benchmark Result (timestamp, duration and the agent's and
\* model's names are left out)
BenchmarkResult(id, agent, verification, skip) ==
  [task_id |-> id,
   success |-> Success(agent, verification, skip),
   score |-> Score(Success(agent, verification, skip)),
   iterations |-> IF agent.kind = "returned" THEN agent.value.iterations
                  ELSE 0,
   tokens_used |-> IF agent.kind = "returned" THEN agent.value.tokensUsed
                   ELSE 0,
   agent_output |-> IF agent.kind = "returned" THEN Some(agent.value.output)
                    ELSE None,
   verification_output |-> IF verification.kind = "returned"
                           THEN Some(verification.value) ELSE None,
   error |-> ErrorMessage(agent, verification)]

\* the suite summary (pass rate and duration are left out)
Summary(rs) ==
  [total |-> Len(rs),
   passed |-> Cardinality({i \in 1..Len(rs) : rs[i].success}),
   failed |-> Cardinality({i \in 1..Len(rs) : ~rs[i].success})]

\* the command line; the tasks are the list the loader produces, task ids
\* in a fixed order
RInit ==
  /\ option \in {"task", "suite", "none", "verify", "init"}
  /\ skipVerify \in BOOLEAN
  /\ tasks \in {[i \in 1..n |-> i] : n \in 0..MaxTasks}
  /\ option \in {"task", "verify"} => Len(tasks) = 1
  /\ option \in {"none", "init"} => tasks = <<>>
  /\ rpc = "cli"
  /\ cur = 0
  /\ agentStep = NoOutcome
  /\ verifyStep = NoOutcome
  /\ invoked = FALSE
  /\ persisted = <<>>
  /\ skipped = <<>>
  /\ raised = None
  /\ summary = None
  /\ reported = None
  /\ exitStatus = None
  /\ orphaned = FALSE

nonRunner == <<vvars, avars, kvars>>
cli == <<option, skipVerify, tasks>>
steps == <<agentStep, verifyStep, invoked>>
records == <<persisted, skipped, summary>>
shown == <<reported, exitStatus>>

(***************************************************************************)
(* The verify command                                                      *)
(***************************************************************************)
\* lines 17-23: the task is loaded and Verifier.verify is called
VerifyCommandLoads ==
  /\ exitStatus = None
  /\ option = "verify"
  /\ rpc = "cli"
  /\ cur' = 1
  /\ invoked' = TRUE
  /\ rpc' = "verifying"
  /\ UNCHANGED <<cli, agentStep, verifyStep, records, raised, shown>>
  /\ UNCHANGED orphaned
  /\ UNCHANGED nonRunner

\* lines 18, 38-41: loader.loadById throws; the catch exits with 1
VerifyCommandNotFound ==
  /\ exitStatus = None
  /\ option = "verify"
  /\ rpc = "cli"
  /\ raised' = Some(TaskNotFoundError(<<"Task not found">>))
  /\ exitStatus' = Some(1)
  /\ rpc' = "exited"
  /\ UNCHANGED <<cli, cur, steps, records, reported>>
  /\ UNCHANGED orphaned
  /\ UNCHANGED nonRunner

\* lines 23-37: the Verification Result is reported and the process exits
VerifyCommandReports ==
  /\ exitStatus = None
  /\ rpc = "verifying"
  /\ \E vr \in VerifierResults :
       /\ verifyStep' = Returned(vr)
       /\ reported' = Some([success |-> vr.passed,
                            score |-> IF vr.passed THEN 100 ELSE 0])
       /\ exitStatus' = Some(IF vr.passed THEN 0 ELSE 1)
  /\ rpc' = "exited"
  /\ UNCHANGED <<cli, cur, agentStep, invoked, records, raised>>
  /\ UNCHANGED orphaned
  /\ UNCHANGED nonRunner

\* lines 23, 38-41: Verifier.verify throws; the catch exits with 1
VerifyCommandFails ==
  /\ exitStatus = None
  /\ rpc = "verifying"
  /\ \E e \in VerifierFailures :
       /\ verifyStep' = Raised(e)
       /\ raised' = Some(e)
  /\ exitStatus' = Some(1)
  /\ rpc' = "exited"
  /\ UNCHANGED <<cli, cur, agentStep, invoked, records, reported>>
  /\ UNCHANGED orphaned
  /\ UNCHANGED nonRunner

(***************************************************************************)
(* main and the init command                                               *)
(***************************************************************************)
\* index.ts lines 9-17: createCLI rejects (the user configuration cannot be
\* loaded, part_005 line 20) before any command's action has started;
\* main's catch logs 'Fatal error' and the process exits with 1
MainFatal ==
  /\ exitStatus = None
  /\ option # "idle"
  /\ rpc = "cli"
  /\ exitStatus' = Some(1)
  /\ UNCHANGED <<cli, rpc, cur, steps, records, raised, reported>>
  /\ UNCHANGED orphaned
  /\ UNCHANGED nonRunner

\* init.ts lines 17-40: the configuration is saved and printed and the
\* action ends without a process.exit, or saveUserConfig rejects and the
\* catch logs 'Init failed' and exits with 1
InitCommand ==
  /\ exitStatus = None
  /\ option = "init"
  /\ rpc = "cli"
  /\ \/ UNCHANGED exitStatus
     \/ exitStatus' = Some(1)
  /\ rpc' = "exited"
  /\ UNCHANGED <<cli, cur, steps, records, raised, reported>>
  /\ UNCHANGED orphaned
  /\ UNCHANGED nonRunner

(***************************************************************************)
(* The run command                                                         *)
(***************************************************************************)
\* lines 66-77: --task: runner.runTask is called
RunCommandTask ==
  /\ exitStatus = None
  /\ option = "task"
  /\ rpc = "cli"
  /\ cur' = 1
  /\ rpc' = "resolve"
  /\ UNCHANGED <<cli, steps, records, raised, shown>>
  /\ UNCHANGED orphaned
  /\ UNCHANGED nonRunner

\* lines 88-103: --suite: runner.runAll or runner.runCategory is called
RunCommandSuite ==
  /\ exitStatus = None
  /\ option = "suite"
  /\ rpc = "cli"
  /\ rpc' = "loop"
  /\ UNCHANGED <<cli, cur, steps, records, raised, shown>>
  /\ UNCHANGED orphaned
  /\ UNCHANGED nonRunner

\* lines 104-107: neither --task nor --suite
RunCommandNeither ==
  /\ exitStatus = None
  /\ option = "none"
  /\ rpc = "cli"
  /\ exitStatus' = Some(1)
  /\ rpc' = "exited"
  /\ UNCHANGED <<cli, cur, steps, records, raised, reported>>
  /\ UNCHANGED orphaned
  /\ UNCHANGED nonRunner

\* a run command that exits with 0 whatever the result says
RunCommandTaskExitsZero ==
  /\ exitStatus = None
  /\ option = "task"
  /\ rpc = "returned"
  /\ reported' = Some([success |-> Last(persisted).success,
                       score |-> Last(persisted).score])
  /\ exitStatus' = Some(0)
  /\ rpc' = "exited"
  /\ UNCHANGED <<cli, cur, steps, records, raised>>
  /\ UNCHANGED orphaned
  /\ UNCHANGED nonRunner

\* lines 77-87: runTask returned; the result is reported and the process
\* exits with result.success ? 0 : 1
RunCommandTaskExits ==
  /\ exitStatus = None
  /\ option = "task"
  /\ rpc = "returned"
  /\ reported' = Some([success |-> Last(persisted).success,
                       score |-> Last(persisted).score])
  /\ exitStatus' = Some(IF Last(persisted).success THEN 0 ELSE 1)
  /\ rpc' = "exited"
  /\ UNCHANGED <<cli, cur, steps, records, raised>>
  /\ UNCHANGED orphaned
  /\ UNCHANGED nonRunner

\* lines 108-111: the catch encloses both branches: runTask raised, or
\* runAll / runCategory rejected; 'Run failed' is logged and the process
\* exits with 1
RunCommandCatch ==
  /\ exitStatus = None
  /\ \/ option = "task" /\ rpc = "raised"
     \/ option = "suite" /\ rpc = "rejected"
  /\ exitStatus' = Some(1)
  /\ rpc' = "exited"
  /\ UNCHANGED <<cli, cur, steps, records, raised, reported>>
  /\ UNCHANGED orphaned
  /\ UNCHANGED nonRunner

\* lines 88-103: runAll or runCategory returned; the action ends without a
\* process.exit
RunCommandSuiteReturns ==
  /\ exitStatus = None
  /\ option = "suite"
  /\ rpc = "summarised"
  /\ rpc' = "exited"
  /\ UNCHANGED <<cli, cur, steps, records, raised, shown>>
  /\ UNCHANGED orphaned
  /\ UNCHANGED nonRunner

(***************************************************************************)
(* Runner: runTask                                                         *)
(***************************************************************************)
\* step 1: the task is resolved
ResolveOk ==
  /\ exitStatus = None
  /\ rpc = "resolve"
  /\ rpc' = "provision"
  /\ UNCHANGED <<cli, cur, steps, records, raised, shown>>
  /\ UNCHANGED orphaned
  /\ UNCHANGED nonRunner

\* step 1: the task cannot be resolved: an orchestration-level fault
ResolveFails ==
  /\ exitStatus = None
  /\ rpc = "resolve"
  /\ raised' = Some(TaskNotFoundError(<<"Task not found">>))
  /\ rpc' = "raised"
  /\ UNCHANGED <<cli, cur, steps, records, shown>>
  /\ UNCHANGED orphaned
  /\ UNCHANGED nonRunner

\* step 2: the workspace is provisioned
ProvisionOk ==
  /\ exitStatus = None
  /\ rpc = "provision"
  /\ rpc' = "agent"
  /\ UNCHANGED <<cli, cur, steps, records, raised, shown>>
  /\ UNCHANGED orphaned
  /\ UNCHANGED nonRunner

\* step 2: provisioning fails: an orchestration-level fault
ProvisionFails ==
  /\ exitStatus = None
  /\ rpc = "provision"
  /\ raised' = Some(GitError(<<"Failed to clone repository">>))
  /\ rpc' = "raised"
  /\ UNCHANGED <<cli, cur, steps, records, shown>>
  /\ UNCHANGED orphaned
  /\ UNCHANGED nonRunner

\* step 3: the agent returns an Agent Result
AgentReturns ==
  /\ rpc = "agent"
  /\ exitStatus = None
  /\ \E r \in AgentResults : agentStep' = Returned(r)
  /\ rpc' = IF skipVerify THEN "construct" ELSE "verify"
  /\ UNCHANGED <<cli, cur, verifyStep, invoked, records, raised, shown>>
  /\ UNCHANGED orphaned
  /\ UNCHANGED nonRunner

\* a runner that goes on to verification after the agent step failed
AgentRaisesThenVerifies ==
  /\ rpc = "agent"
  /\ exitStatus = None
  /\ \E e \in AgentFailures :
       /\ agentStep' = Raised(e)
       /\ orphaned' =
            (orphaned \/ e \in {ExecutionFailed(x) : x \in SdkErrors})
  /\ rpc' = IF skipVerify THEN "construct" ELSE "verify"
  /\ UNCHANGED <<cli, cur, verifyStep, invoked, records, raised, shown>>
  /\ UNCHANGED nonRunner

\* step 3: the agent step fails; verification is skipped. When the failure
\* is that of the prompt (opencode.ts lines 100, 133-137) captureMetrics is
\* left reading the stream.
AgentRaises ==
  /\ rpc = "agent"
  /\ exitStatus = None
  /\ \E e \in AgentFailures :
       /\ agentStep' = Raised(e)
       /\ orphaned' =
            (orphaned \/ e \in {ExecutionFailed(x) : x \in SdkErrors})
  /\ rpc' = "construct"
  /\ UNCHANGED <<cli, cur, verifyStep, invoked, records, raised, shown>>
  /\ UNCHANGED nonRunner

\* The event stream of an agent call ends with session.error and nothing
\* handles the rejection of eventPromise: the runtime ends the process with
\* status 1 and process.exit is not called. This happens inside
\* agent.execute while the prompt is still awaited (opencode.ts lines
\* 95-117), and at any later point of the run once an agent call has raised
\* on its prompt and left its stream being read (lines 100, 133-137,
\* 178-180). The runner is left where it was: nothing more is constructed,
\* persisted, skipped, summarised or reported.
AgentCrashes ==
  /\ exitStatus = None
  /\ rpc = "agent" \/ orphaned
  /\ exitStatus' = Some(1)
  /\ UNCHANGED <<cli, rpc, cur, steps, records, raised, reported>>
  /\ UNCHANGED orphaned
  /\ UNCHANGED nonRunner

\* step 4: the Verifier is invoked and returns a Verification Result
VerifierReturns ==
  /\ exitStatus = None
  /\ rpc = "verify"
  /\ invoked' = TRUE
  /\ \E vr \in VerifierResults : verifyStep' = Returned(vr)
  /\ rpc' = "construct"
  /\ UNCHANGED <<cli, cur, agentStep, records, raised, shown>>
  /\ UNCHANGED orphaned
  /\ UNCHANGED nonRunner

\* step 4: the Verifier is invoked and fails
VerifierRaises ==
  /\ exitStatus = None
  /\ rpc = "verify"
  /\ invoked' = TRUE
  /\ \E e \in VerifierFailures : verifyStep' = Raised(e)
  /\ rpc' = "construct"
  /\ UNCHANGED <<cli, cur, agentStep, records, raised, shown>>
  /\ UNCHANGED orphaned
  /\ UNCHANGED nonRunner

\* a runner that persists the Benchmark Result twice
PersistTwice ==
  /\ exitStatus = None
  /\ rpc = "construct"
  /\ persisted' =
       persisted \o
         << BenchmarkResult(tasks[cur], agentStep, verifyStep, skipVerify),
            BenchmarkResult(tasks[cur], agentStep, verifyStep, skipVerify) >>
  /\ rpc' = "persisted"
  /\ UNCHANGED <<cli, cur, steps, skipped, summary, raised, shown>>
  /\ UNCHANGED orphaned
  /\ UNCHANGED nonRunner

\* steps 6-7: the Benchmark Result is constructed and persisted
Persist ==
  /\ exitStatus = None
  /\ rpc = "construct"
  /\ persisted' =
       Append(persisted,
              BenchmarkResult(tasks[cur], agentStep, verifyStep, skipVerify))
  /\ rpc' = "persisted"
  /\ UNCHANGED <<cli, cur, steps, skipped, summary, raised, shown>>
  /\ UNCHANGED orphaned
  /\ UNCHANGED nonRunner

\* runTask returns the Benchmark Result to its caller
RunTaskReturns ==
  /\ exitStatus = None
  /\ rpc = "persisted"
  /\ rpc' = IF option = "task" THEN "returned" ELSE "loop"
  /\ UNCHANGED <<cli, cur, steps, records, raised, shown>>
  /\ UNCHANGED orphaned
  /\ UNCHANGED nonRunner

(***************************************************************************)
(* Runner: runAll, runCategory                                             *)
(***************************************************************************)
\* the loop takes the next task of the list
SuiteNext ==
  /\ exitStatus = None
  /\ rpc = "loop"
  /\ cur < Len(tasks)
  /\ cur' = cur + 1
  /\ agentStep' = NoOutcome
  /\ verifyStep' = NoOutcome
  /\ invoked' = FALSE
  /\ rpc' = "resolve"
  /\ UNCHANGED <<cli, records, raised, shown>>
  /\ UNCHANGED orphaned
  /\ UNCHANGED nonRunner

\* the task loader fails (loadAll / loadByCategory: 'task not found' or
\* 'invalid task format') before the first task: runAll / runCategory
\* rejects
SuiteLoadFails ==
  /\ exitStatus = None
  /\ option = "suite"
  /\ rpc = "loop"
  /\ cur = 0
  /\ raised' = Some(TaskNotFoundError(<<"Task not found">>))
  /\ rpc' = "rejected"
  /\ UNCHANGED <<cli, cur, steps, records, shown>>
  /\ UNCHANGED orphaned
  /\ UNCHANGED nonRunner

\* a task's orchestration-level fault is logged and the task skipped
SuiteSkips ==
  /\ exitStatus = None
  /\ option = "suite"
  /\ rpc = "raised"
  /\ skipped' = Append(skipped, tasks[cur])
  /\ raised' = None
  /\ rpc' = "loop"
  /\ UNCHANGED <<cli, cur, steps, persisted, summary, shown>>
  /\ UNCHANGED orphaned
  /\ UNCHANGED nonRunner

\* the list is exhausted: the summary is made
SuiteSummarises ==
  /\ exitStatus = None
  /\ rpc = "loop"
  /\ cur = Len(tasks)
  /\ summary' = Some(Summary(persisted))
  /\ rpc' = "summarised"
  /\ UNCHANGED <<cli, cur, steps, persisted, skipped, raised, shown>>
  /\ UNCHANGED orphaned
  /\ UNCHANGED nonRunner

RNext ==
  \/ MainFatal
  \/ InitCommand
  \/ VerifyCommandLoads
  \/ VerifyCommandNotFound
  \/ VerifyCommandReports
  \/ VerifyCommandFails
  \/ RunCommandTask
  \/ RunCommandSuite
  \/ RunCommandNeither
  \/ RunCommandTaskExits
  \/ RunCommandCatch
  \/ RunCommandSuiteReturns
  \/ ResolveOk
  \/ ResolveFails
  \/ ProvisionOk
  \/ ProvisionFails
  \/ AgentReturns
  \/ AgentRaises
  \/ AgentCrashes
  \/ VerifierReturns
  \/ VerifierRaises
  \/ Persist
  \/ RunTaskReturns
  \/ SuiteLoadFails
  \/ SuiteNext
  \/ SuiteSkips
  \/ SuiteSummarises

RunnerInit == RInit /\ VIdle /\ AIdle /\ KIdle

RunnerSpec == RunnerInit /\ [][RNext]_vars

\* Fairness: the continuations of the commands, of runTask and of the suite
\* loop run once their await has settled; the task loader and the workspace
\* manager answer, and Verifier.verify settles by its timer at the latest.
\* The agent call is given no fairness: agent.execute may never return
\* (opencode.ts line 100 waits for the prompt without a deadline).
RunnerFairSpec ==
  /\ RunnerSpec
  /\ WF_vars(\/ InitCommand
             \/ VerifyCommandLoads
             \/ VerifyCommandNotFound
             \/ VerifyCommandReports
             \/ VerifyCommandFails
             \/ RunCommandTask
             \/ RunCommandSuite
             \/ RunCommandNeither
             \/ RunCommandTaskExits
             \/ RunCommandCatch
             \/ RunCommandSuiteReturns
             \/ ResolveOk
             \/ ResolveFails
             \/ ProvisionOk
             \/ ProvisionFails
             \/ VerifierReturns
             \/ VerifierRaises
             \/ Persist
             \/ RunTaskReturns
             \/ SuiteLoadFails
             \/ SuiteNext
             \/ SuiteSkips
             \/ SuiteSummarises)

(***************************************************************************)
(* Run command and Runner: properties                                      *)
(***************************************************************************)
\* runTask is past task resolution and workspace provisioning and has not
\* yet persisted a result
PastProvisioning == rpc \in {"agent", "verify", "construct"}

\* the agent outcome and the verification outcome, or its absence, are known
OutcomesKnown ==
  \/ agentStep.kind = "raised"
  \/ /\ agentStep.kind = "returned"
     /\ skipVerify \/ verifyStep.kind # "none"

\* the suite run (runAll or runCategory has been called) has ended: the
\* summary is made, the command has exited, or the process has ended under
\* it
SuiteEnded ==
  /\ option = "suite"
  /\ rpc # "cli"
  /\ rpc \in {"summarised", "exited"} \/ exitStatus # None

\* C12: in every runTask execution in which verification is skipped, the
\* Benchmark Result's success equals the Agent Result's success flag, and no
\* Verification Result is produced or attached.
C12_SkippedMirrorsAgent ==
  (skipVerify /\ rpc = "persisted") =>
     /\ ~invoked
     /\ verifyStep = NoOutcome
     /\ Last(persisted).verification_output = None
     /\ agentStep.kind = "returned" =>
          Last(persisted).success = agentStep.value.success

\* verification was skipped, the agent returned success = FALSE, and the
\* persisted result fails with nothing attached
C12_Witness ==
  /\ skipVerify
  /\ rpc = "persisted"
  /\ agentStep.kind = "returned"
  /\ ~agentStep.value.success
  /\ ~Last(persisted).success
  /\ Last(persisted).verification_output = None

\* C13: in every runTask execution in which the Verifier runs and returns a
\* result, the Benchmark Result's success equals that result's passed flag,
\* whatever the agent's output and success flag; when the Verifier fails
\* with a VerificationError, success is false and the message is captured.
C13_VerifiedMirrorsVerifier ==
  (invoked /\ rpc = "persisted") =>
     /\ verifyStep.kind = "returned" =>
          /\ Last(persisted).success = verifyStep.value.passed
          /\ Last(persisted).verification_output = Some(verifyStep.value)
     /\ (verifyStep.kind = "raised"
           /\ verifyStep.value.type = "VerificationError") =>
          /\ ~Last(persisted).success
          /\ Last(persisted).error = Some(verifyStep.value.message)

\* the agent returned success = TRUE, the Verifier returned passed = FALSE,
\* and the persisted result fails
C13_Witness ==
  /\ invoked
  /\ rpc = "persisted"
  /\ agentStep.kind = "returned"
  /\ agentStep.value.success
  /\ verifyStep.kind = "returned"
  /\ ~verifyStep.value.passed
  /\ ~Last(persisted).success

\* C14: in every runTask execution where the agent step fails with an
\* AgentError, the Verifier is never invoked for that task, whatever
\* skipVerify is, and the Benchmark Result has success = false with the
\* agent's error message.
C14_AgentFailureSkipsVerifier ==
  (agentStep.kind = "raised" /\ agentStep.value.type = "AgentError") =>
     /\ ~invoked
     /\ verifyStep = NoOutcome
     /\ rpc = "persisted" =>
          /\ ~Last(persisted).success
          /\ Last(persisted).error = Some(agentStep.value.message)

\* verification was asked for, the agent step failed with the session
\* error, and the result was persisted without the Verifier being invoked
C14_Witness ==
  /\ ~skipVerify
  /\ rpc = "persisted"
  /\ agentStep =
       Raised(ExecutionFailed(SessionError(Some("model unavailable"))))
  /\ ~invoked
  /\ Contains(CHOOSE m \in Last(persisted).error : TRUE, "model unavailable")

\* C15: every runTask that gets past task resolution and workspace
\* provisioning persists exactly one Benchmark Result, also when the agent
\* step or the verification step failed, and the result is persisted only
\* once the agent outcome and the verification outcome are known.
C15_ExactlyOneResult ==
  [][/\ persisted' # persisted =>
          /\ PastProvisioning
          /\ OutcomesKnown
          /\ persisted' =
               Append(persisted,
                      BenchmarkResult(tasks[cur], agentStep, verifyStep,
                                      skipVerify))
     /\ (PastProvisioning /\ ~PastProvisioning') =>
          Len(persisted') = Len(persisted) + 1]_vars

\* the verification step failed and one result was persisted for the task
C15_Witness ==
  /\ option = "task"
  /\ rpc = "persisted"
  /\ verifyStep.kind = "raised"
  /\ Len(persisted) = 1
  /\ ~Last(persisted).success

\* C16: a suite run over N tasks always runs to the end: neither a task's
\* orchestration-level fault nor its ordinary failure stops the iteration,
\* every task is either run to a persisted result or logged and skipped,
\* and the summary's total is N minus the number of skipped tasks. (A run
\* whose task set could not be loaded, so that runAll / runCategory itself
\* rejected, is not held against the claim: raised is then still set.)
C16_SuiteRunsToEnd ==
  /\ []((SuiteEnded /\ raised = None) =>
          /\ cur = Len(tasks)
          /\ \A i \in 1..Len(tasks) :
               \/ \E j \in 1..Len(persisted) : persisted[j].task_id = tasks[i]
               \/ \E j \in 1..Len(skipped) : skipped[j] = tasks[i]
          /\ Len(persisted) + Len(skipped) = Len(tasks)
          /\ \A s \in summary : s.total = Len(tasks) - Len(skipped)
          /\ summary # None)
  /\ (option = "suite" /\ rpc # "cli") ~> SuiteEnded

\* C17: a single-task run exits with status 0 if and only if the task's
\* Benchmark Result has success = true; it exits with 1 when success is
\* false and when runTask raises.
C17_ExitStatusReflectsSuccess ==
  (option = "task" /\ rpc = "exited") =>
     /\ exitStatus \in {Some(0), Some(1)}
     /\ exitStatus = Some(0) <=>
          (raised = None /\ persisted # <<>> /\ Last(persisted).success)
     /\ raised # None => exitStatus = Some(1)

\* a single-task run whose result has success = FALSE has exited with 1
C17_Witness ==
  /\ option = "task"
  /\ rpc = "exited"
  /\ raised = None
  /\ persisted # <<>>
  /\ ~Last(persisted).success
  /\ exitStatus = Some(1)

(***************************************************************************)
(* Verifier: two calls against a deterministic command.  verify keeps all  *)
(* its state in the locals of one call (there is no module-level or static *)
(* state in evaluator/verifier.ts), so a second call starts from the state *)
(* of the first; what the two calls share is the task, the workspace and   *)
(* the command's behaviour.                                                *)
(***************************************************************************)
\* most verify calls made one after the other
MaxCalls == 2

\* what a deterministic command does when it runs to its end
Scripts ==
  {[code |-> c, out |-> o, err |-> e] :
     c \in ExitCodes,
     o \in SeqsUpTo(StdoutChunks, MaxChunks),
     e \in SeqsUpTo(StderrChunks, MaxChunks)}

IsPrefix(s, t) == Len(s) <= Len(t) /\ SubSeq(t, 1, Len(s)) = s

\* the child behaves as the command's script says: it writes the script's
\* output in order, exits with the script's code when it exits on its own,
\* has written all its output by the time 'close' follows its own exit, and
\* is ended by a signal only when one of verify's timers sent it
FollowsScript ==
  /\ IsPrefix(stdout, script.out)
  /\ IsPrefix(stderr, script.err)
  /\ proc = "exited" => exitCode = Some(script.code)
  /\ proc = "killed" => signalled
  /\ (proc = "exited" /\ closed) =>
       (stdout = script.out /\ stderr = script.err)

\* the task of the two calls: a command with a program to run
TwiceInit ==
  /\ command = <<"a">>
  /\ timeout \in Timeouts
  /\ script \in {s \in Scripts : Len(s.out) + Len(s.err) <= MaxChunks}
  /\ earlier = <<>>
  /\ vpc = "start"
  /\ promise = Pending
  /\ attempts = 0
  /\ proc = "none"
  /\ exitCode = None
  /\ spawnError = None
  /\ errorEmitted = FALSE
  /\ signalled = FALSE
  /\ closed = FALSE
  /\ spawnTimer = FALSE
  /\ timeoutId = FALSE
  /\ deadline = FALSE
  /\ kills = 0
  /\ chunks = <<>>
  /\ stdout = <<>>
  /\ stderr = <<>>

\* a step of the current call, with the child following the script
ScriptedStep == VNext /\ FollowsScript'

\* the caller has awaited the promise and calls verify again with the same
\* task and workspace: the new call has fresh locals
VerifyAgain ==
  /\ Settled
  /\ Len(earlier) < MaxCalls - 1
  /\ earlier' = Append(earlier, promise)
  /\ vpc' = "start"
  /\ promise' = Pending
  /\ attempts' = 0
  /\ proc' = "none"
  /\ exitCode' = None
  /\ spawnError' = None
  /\ errorEmitted' = FALSE
  /\ signalled' = FALSE
  /\ closed' = FALSE
  /\ spawnTimer' = FALSE
  /\ timeoutId' = FALSE
  /\ deadline' = FALSE
  /\ kills' = 0
  /\ chunks' = <<>>
  /\ stdout' = <<>>
  /\ stderr' = <<>>
  /\ UNCHANGED <<command, timeout, script>>
  /\ UNCHANGED <<avars, rvars, kvars>>

TwiceNext ==
  \/ ScriptedStep
  \/ VerifyAgain

VerifyTwiceInit == TwiceInit /\ AIdle /\ RIdle /\ KIdle

VerifyTwiceSpec == VerifyTwiceInit /\ [][TwiceNext]_vars

\* C18: two verify calls with the same task and workspace against a
\* deterministic command yield Verification Results that agree on passed,
\* exitCode, stdout and stderr.
C18_SameResultTwice ==
  \A i \in 1..Len(earlier) :
     (earlier[i].state = "resolved" /\ promise.state = "resolved") =>
        earlier[i].value = promise.value

(***************************************************************************)
(* Result collector (collectResults, writeCSV, collectAndWrite)            *)
(***************************************************************************)
\* most entries in the results directory
MaxFiles == 2
\* latest timestamp of a stored result
MaxStamp == 2

\* the Benchmark Results stored in files (the fields the collector reads)
StoredResults ==
  {[task_id |-> "TOOLS-001", timestamp |-> t, success |-> TRUE] :
     t \in 1..MaxStamp}

\* directory entries: a name (a prefix and an extension) and what
\* JSON.parse makes of the content, None for a file that cannot be read or
\* parsed
Files ==
  {[name |-> [prefix |-> p, ext |-> e], content |-> c] :
     p \in {"TOOLS-001_", "suite_"}, e \in {".json", ".csv"},
     c \in {None} \cup {Some(r) : r \in StoredResults}}

\* line 112: f.endsWith('.json') && !f.startsWith('suite_')
IsResultFile(f) == f.name.ext = ".json" /\ f.name.prefix # "suite_"

\* line 112: files.filter(...)
jsonFiles(dir) == SelectSeq(dir, IsResultFile)

\* the methods of a JavaScript array that take an element to add
ArrayMethods == {"push", "unshift"}

\* line 125: Array.prototype.sort is stable; the comparator orders by
\* timestamp
InsertByTimestamp(r, sorted) ==
  LET before == SelectSeq(sorted, LAMBDA x : x.timestamp <= r.timestamp)
      after == SelectSeq(sorted, LAMBDA x : x.timestamp > r.timestamp)
  IN  before \o <<r>> \o after

RECURSIVE SortByTimestamp(_)
SortByTimestamp(rs) ==
  IF rs = <<>> THEN <<>>
  ELSE InsertByTimestamp(rs[Len(rs)],
                         SortByTimestamp(SubSeq(rs, 1, Len(rs) - 1)))

\* lines 151-163: the CSV rows, one per result, in order
Rows(rs) ==
  [i \in 1..Len(rs) |->
     [task_id |-> rs[i].task_id, timestamp |-> rs[i].timestamp,
      success |-> rs[i].success]]

\* the collect command calls collectAndWrite on a results directory
\* (part_004 line 15), or writeCSV, which is exported, is called on its own
\* with an array of results
KInit ==
  /\ \/ /\ dirFiles \in SeqsUpTo(Files, MaxFiles)
        /\ kpc = "start"
        /\ results = <<>>
     \/ /\ dirFiles = <<>>
        /\ kpc = "write"
        /\ results \in SeqsUpTo(StoredResults, MaxFiles)
  /\ loaded = 0
  /\ warned = 0
  /\ csv = None

nonCollector == <<vvars, avars, rvars>>

\* lines 111-114: readdir returns the entries
ReadDir ==
  /\ kpc = "start"
  /\ kpc' = "loop"
  /\ UNCHANGED <<dirFiles, loaded, results, warned, csv>>
  /\ UNCHANGED nonCollector

\* line 111: readdir fails: collectResults and collectAndWrite reject; the
\* collect command's catch follows (CollectCommandCatch)
ReadDirFails ==
  /\ kpc = "start"
  /\ kpc' = "failed"
  /\ UNCHANGED <<dirFiles, loaded, results, warned, csv>>
  /\ UNCHANGED nonCollector

\* lines 116-123, one iteration: the file is loaded and results.append is
\* called with it. A file that cannot be read or parsed makes loadResult
\* throw; a call of a method the array does not have throws a TypeError.
\* The catch of lines 120-122 logs a warning either way.
LoadFile ==
  /\ kpc = "loop"
  /\ loaded < Len(jsonFiles(dirFiles))
  /\ loaded' = loaded + 1
  /\ LET f == jsonFiles(dirFiles)[loaded + 1]
     IN  IF f.content # None /\ "append" \in ArrayMethods
         THEN /\ results' = results \o <<CHOOSE r \in f.content : TRUE>>
              /\ UNCHANGED warned
         ELSE /\ warned' = warned + 1
              /\ UNCHANGED results
  /\ UNCHANGED <<dirFiles, kpc, csv>>
  /\ UNCHANGED nonCollector

\* line 125: the loop is over; the sorted array is returned
CollectReturns ==
  /\ kpc = "loop"
  /\ loaded = Len(jsonFiles(dirFiles))
  /\ results' = SortByTimestamp(results)
  /\ kpc' = "collected"
  /\ UNCHANGED <<dirFiles, loaded, warned, csv>>
  /\ UNCHANGED nonCollector

\* lines 131-177, 187: writeCSV warns and writes nothing for an empty
\* array; otherwise it writes one row per result, or writeFile rejects (the
\* output path cannot be written) and writeCSV rejects with it, and so does
\* collectAndWrite when it was the caller
WriteCSV ==
  /\ kpc \in {"collected", "write"}
  /\ \/ /\ Len(results) = 0
        /\ warned' = warned + 1
        /\ kpc' = IF kpc = "collected" THEN "written" ELSE "wrote"
        /\ UNCHANGED csv
     \/ /\ Len(results) # 0
        /\ csv' = Some(Rows(results))
        /\ kpc' = IF kpc = "collected" THEN "written" ELSE "wrote"
        /\ UNCHANGED warned
     \/ /\ Len(results) # 0
        /\ kpc' = IF kpc = "collected" THEN "failed" ELSE "rejected"
        /\ UNCHANGED <<csv, warned>>
  /\ UNCHANGED <<dirFiles, loaded, results>>
  /\ UNCHANGED nonCollector

\* part_004 lines 14-21: collectAndWrite rejected: the catch logs
\* 'Collection failed' and the process exits with 1. (When collectAndWrite
\* returns, line 16 logs the output path and the action ends without a
\* process.exit.)
CollectCommandCatch ==
  /\ kpc = "failed"
  /\ exitStatus' = Some(1)
  /\ kpc' = "exited"
  /\ UNCHANGED <<dirFiles, loaded, results, warned, csv>>
  /\ UNCHANGED <<cli, rpc, cur, steps, records, raised, reported, orphaned>>
  /\ UNCHANGED <<vvars, avars>>

KNext ==
  \/ ReadDir
  \/ ReadDirFails
  \/ LoadFile
  \/ CollectReturns
  \/ WriteCSV
  \/ CollectCommandCatch

CollectorInit == KInit /\ VIdle /\ AIdle /\ RIdle

CollectorSpec == CollectorInit /\ [][KNext]_vars

\* the results stored in the directory's result files that can be read and
\* parsed, in readdir order
StoredIn(dir) ==
  LET readable == SelectSeq(jsonFiles(dir), LAMBDA f : f.content # None)
  IN  [i \in 1..Len(readable) |-> CHOOSE r \in readable[i].content : TRUE]

\* C19: collectResults returns one entry for each readable, parseable
\* '.json' file whose name does not start with 'suite_', sorted ascending
\* by timestamp, and the collect command's CSV contains all of them.
C19_CollectsEveryResult ==
  /\ kpc \in {"collected", "written"} =>
       results = SortByTimestamp(StoredIn(dirFiles))
  /\ (kpc = "written" /\ StoredIn(dirFiles) # <<>>) =>
       csv = Some(Rows(SortByTimestamp(StoredIn(dirFiles))))

\* C20: every Benchmark Result has score 0 or 100, and score 100 if and only
\* if success is true; the verify command reports a Verification Result
\* with the same score.
C20_ScoreBinary ==
  /\ \A i \in 1..Len(persisted) :
       /\ persisted[i].score \in {0, 100}
       /\ persisted[i].score = 100 <=> persisted[i].success
  /\ \A r \in reported :
       /\ r.score \in {0, 100}
       /\ r.score = 100 <=> r.success

\* a suite has persisted a passed result with score 100 and a failed result
\* with score 0
C20_Witness ==
  /\ Len(persisted) = 2
  /\ persisted[1].success
  /\ persisted[1].score = 100
  /\ ~persisted[2].success
  /\ persisted[2].score = 0

(***************************************************************************)
(* Agent session adapter: the metrics as a function of the events          *)
(***************************************************************************)
\* the message.updated events of the assistant's turn among events, in order
AssistantUpdates(events) ==
  SelectSeq(events,
            LAMBDA e : e.type = "message.updated" /\ e.role = "assistant")

\* the sum of a sequence of amounts
RECURSIVE SumOver(_)
SumOver(amounts) ==
  IF Len(amounts) = 0 THEN 0
  ELSE amounts[1] + SumOver([i \in 1..(Len(amounts) - 1) |-> amounts[i + 1]])

\* the input tokens, the output tokens and the cost the events report, in
\* the order of the events
InputAmounts(events) == [i \in 1..Len(events) |-> InputTokens(events[i])]
OutputAmounts(events) == [i \in 1..Len(events) |-> OutputTokens(events[i])]
CostAmounts(events) == [i \in 1..Len(events) |-> Cost(events[i])]

\* the text fragments of a sequence of events, in order: the texts of their
\* parts of type text that have a text
RECURSIVE Fragments(_)
Fragments(events) ==
  IF events = <<>> THEN <<>>
  ELSE LET parts == Head(events).parts
           texts == SelectSeq(parts,
                              LAMBDA q : q.type = "text" /\ q.text # "")
       IN  [i \in 1..Len(texts) |-> texts[i].text]
             \o Fragments(Tail(events))

\* the events delivered before the first session.idle (all of them when
\* there is none)
BeforeIdle(events) ==
  IF \E k \in 1..Len(events) : events[k] = IdleEvent
  THEN SubSeq(events, 1,
              (CHOOSE k \in 1..Len(events) :
                 /\ events[k] = IdleEvent
                 /\ \A j \in 1..(k - 1) : events[j] # IdleEvent) - 1)
  ELSE events

\* C21: for every sequence of delivered events, the iteration count is the
\* number of message.updated events of the assistant's turn, the token
\* totals and the cost are the sums of their counts and costs, and the
\* output list is their text fragments in arrival order; events of the
\* user's turn add nothing.
C21_MetricsFollowAssistantUpdates ==
  cpc # "none" =>
     LET updates == AssistantUpdates(delivered)
     IN  /\ metrics.iterations = Len(updates)
         /\ metrics.inputTokens = SumOver(InputAmounts(updates))
         /\ metrics.outputTokens = SumOver(OutputAmounts(updates))
         /\ metrics.cost = SumOver(CostAmounts(updates))
         /\ metrics.output = Fragments(updates)

\* two messages of the assistant's turn have been delivered, the first
\* with an empty text, a tool part and the text "done", the second with the
\* text "hello" and no usage: two iterations, one message's tokens
C21_Witness ==
  /\ Len(delivered) = 2
  /\ delivered[1].type = "message.updated"
  /\ delivered[1].role = "assistant"
  /\ delivered[1].tokens # None
  /\ delivered[2].type = "message.updated"
  /\ delivered[2].role = "assistant"
  /\ delivered[2].tokens = None
  /\ metrics.iterations = 2
  /\ metrics.inputTokens = 1
  /\ metrics.output = <<"done", "hello">>

\* the stream has delivered a session.idle event
IdleDelivered == \E k \in 1..Len(delivered) : delivered[k] = IdleEvent

\* the Agent Result that carries the fold over the assistant's
\* message.updated events among events
ResultOver(events) ==
  [success |-> TRUE,
   output |-> Join(Fragments(AssistantUpdates(events))),
   iterations |-> Len(AssistantUpdates(events)),
   tokensUsed |-> SumOver(InputAmounts(AssistantUpdates(events)))
                    + SumOver(OutputAmounts(AssistantUpdates(events))),
   cost |-> SumOver(CostAmounts(AssistantUpdates(events)))]

\* C22: when the stream delivers session.idle and the prompt submission
\* succeeds, execute returns an Agent Result with success = true whose
\* iterations, tokens, cost and output are the fold over the assistant's
\* message.updated events delivered before the first session.idle; nothing
\* delivered after it changes the result.  Once captureMetrics has returned
\* (at once, or when the iterator's return() has answered) runTask comes to
\* hold that result and execute calls server.close(); the result leaves
\* execute when the close answers.
C22_IdleReturnsFold ==
  /\ []((Ended /\ IdleDelivered /\ prompt = "ok") =>
          outcome = Returned(ResultOver(BeforeIdle(delivered))))
  /\ (cpc = "idle" /\ prompt = "ok") ~>
       (closeCalls = 1 /\ held = Returned(ResultOver(BeforeIdle(delivered))))
  /\ [](crashed => ~IdleDelivered)

\* an assistant's message and then session.idle were delivered, the prompt
\* submission succeeded, and execute returned one iteration
C22_Witness ==
  /\ Ended
  /\ prompt = "ok"
  /\ Len(delivered) = 2
  /\ delivered[1].type = "message.updated"
  /\ delivered[1].role = "assistant"
  /\ delivered[2] = IdleEvent
  /\ outcome.kind = "returned"
  /\ outcome.value.iterations = 1

\* C23: an event of a type other than message.updated, session.idle and
\* session.error leaves the metrics unchanged and does not end the
\* consumption of the stream.
C23_OtherEventsIgnored ==
  [][(\E event \in OtherEvents : delivered' = Append(delivered, event)) =>
       /\ metrics' = metrics
       /\ cpc' = "consuming"
       /\ eventPromise' = eventPromise
       /\ eventPromise.state = "pending"]_vars

\* an assistant's message was counted, then an event of another type was
\* delivered, and the stream is still being consumed
C23_Witness ==
  /\ Len(delivered) = 2
  /\ delivered[1].type = "message.updated"
  /\ delivered[1].role = "assistant"
  /\ delivered[2] \in OtherEvents
  /\ metrics.iterations = 1
  /\ cpc = "consuming"

\* C24 as stated: if the stream reaches its end without having delivered
\* session.idle or session.error, execute does not fail: it returns an
\* Agent Result with success = true that carries the metrics accumulated
\* up to the end of the stream.
C24_EndOfStreamReturns ==
  (Ended /\ cpc = "ended") => outcome = Returned(ResultOver(delivered))

\* C24 amended: if the stream reaches its end without having delivered
\* session.idle or session.error and the prompt submission succeeds,
\* execute returns an Agent Result with success = true that carries the
\* metrics accumulated up to the end of the stream; if the prompt
\* submission fails, execute fails with an AgentError.
C24_EndOfStreamReturnsAfterPrompt ==
  (Ended /\ cpc = "ended") =>
     /\ ~IdleDelivered
     /\ prompt = "ok" => outcome = Returned(ResultOver(delivered))
     /\ prompt = "failed" =>
          /\ outcome.kind = "raised"
          /\ outcome.value.type = "AgentError"

\* the stream ended after an assistant's message, the prompt submission
\* succeeded, and execute returned one iteration
C24_Witness ==
  /\ Ended
  /\ cpc = "ended"
  /\ prompt = "ok"
  /\ Len(delivered) = 1
  /\ delivered[1].type = "message.updated"
  /\ delivered[1].role = "assistant"
  /\ outcome.kind = "returned"
  /\ outcome.value.success
  /\ outcome.value.iterations = 1

(***************************************************************************)
(* Verifier: further properties                                            *)
(***************************************************************************)
\* C25: after verify has settled through the timeout path, no handler of
\* the losing path makes a further resolve or reject attempt on the settled
\* promise when the killed process closes.
C25_NoAttemptAfterTimeout ==
  [][(/\ promise.state = "rejected"
      /\ promise.value = TimeoutErr(timeout)
      /\ ~closed
      /\ closed') => attempts' = attempts]_vvars

\* the data of the chunks that arrived on one stream, in arrival order
ArrivedOn(stream) ==
  LET own == SelectSeq(chunks, LAMBDA c : c.stream = stream)
  IN  [i \in 1..Len(own) |-> own[i].data]

\* C26: in every Verification Result, stdout is the concatenation of all
\* standard-output chunks in their arrival order and stderr that of all
\* standard-error chunks, for every interleaving of the two streams; no
\* chunk of one stream is in the other stream's buffer.
C26_BuffersInArrivalOrder ==
  /\ stdout = ArrivedOn("stdout")
  /\ stderr = ArrivedOn("stderr")
  /\ promise.state = "resolved" =>
       /\ promise.value.stdout = ArrivedOn("stdout")
       /\ promise.value.stderr = ArrivedOn("stderr")

\* verify has resolved after two different standard-output chunks and,
\* between them, a standard-error chunk
C26_Witness ==
  /\ promise.state = "resolved"
  /\ Len(chunks) = 3
  /\ chunks[2].stream = "stderr"
  /\ promise.value.stdout = <<"o2", "o1">>
  /\ promise.value.stderr = <<"e1">>

(***************************************************************************)
(* Agent session adapter: the agent selected for a task                    *)
(***************************************************************************)
\* execute is called for a task with any permission specification
AgentTypeInit ==
  /\ \E p \in PermissionSpecs : AStart(p)
  /\ VIdle
  /\ RIdle
  /\ KIdle

AgentTypeSpec == AgentTypeInit /\ [][ANext]_vars

\* C27: once runTask has selected the agent for the prompt request, the agent
\* is 'plan' exactly when the task's permissions grant neither write nor
\* bash, and 'build' for every other combination of the two flags, whatever
\* the read, web_fetch and mode fields are
C27_PlanIffNoWriteNoBash ==
  agentType # "none" =>
    /\ agentType \in {"plan", "build"}
    /\ agentType = "plan" <=> (~permissions.write /\ ~permissions.bash)
    /\ agentType = "build" <=> (permissions.write \/ permissions.bash)

\* a task that may read and fetch but neither write nor run bash, under a
\* permission mode that skips the checks, was given the 'plan' agent
C27_Witness ==
  /\ agentType = "plan"
  /\ permissions.read
  /\ permissions.web_fetch
  /\ ~permissions.write
  /\ ~permissions.bash
  /\ permissions.mode = "bypassPermissions"
  /\ prompt = "ok"

(***************************************************************************)
(* Verifier: the result of a child that a signal ended                     *)
(***************************************************************************)
\* C28: every result verify resolves with that has exitCode = null (the
\* child was ended by a signal) has passed = false, and a result with
\* passed = true has exitCode = 0
C28_PassedOnlyOnExitZero ==
  promise.state = "resolved" =>
    /\ promise.value.exitCode = None => ~promise.value.passed
    /\ promise.value.passed => promise.value.exitCode = Some(0)

\* verify resolved with the result of a child that was killed before the
\* verifier's own timer fired: no exit code, not passed
C28_Witness ==
  /\ promise.state = "resolved"
  /\ proc = "killed"
  /\ promise.value.exitCode = None
  /\ ~promise.value.passed

(***************************************************************************)
(* Agent session adapter: a failing event stream                           *)
(***************************************************************************)
\* C29: when the event stream failed without a session.error event (the
\* subscribe call failed, or the transport threw while the events were
\* iterated) and the prompt submission succeeded, execute returns an Agent
\* Result with success = true and the metrics accumulated from the events
\* delivered before the failure
C29_StreamFailureSwallowed ==
  (Ended /\ prompt = "ok" /\ cpc = "caught") =>
    /\ outcome.kind = "returned"
    /\ outcome.value.success
    /\ outcome = Returned(ResultOver(delivered))

\* the transport threw after one assistant message had been delivered, the
\* prompt returned, and execute returned the metrics of that message
C29_Witness ==
  /\ Ended
  /\ prompt = "ok"
  /\ cpc = "caught"
  /\ Len(AssistantUpdates(delivered)) = 1
  /\ outcome.kind = "returned"
  /\ outcome.value.success
  /\ outcome.value.iterations = 1

(***************************************************************************)
(* Agent session adapter: a failing close of the server handle             *)
(***************************************************************************)
\* C30: a failure of server.close() never changes the outcome of execute:
\* what leaves execute is the outcome runTask had before the close, the Agent
\* Result built from the metrics when runTask returned, and the error
\* runTask raised (an AgentError whenever the failure came after the session
\* was created) when it raised
C30_CloseFailureKeepsOutcome ==
  (Ended /\ server = "closeFailed") =>
    /\ outcome = held
    /\ outcome.kind \in {"returned", "raised"}
    /\ outcome.kind = "returned" => outcome.value = AgentResult(metrics)
    /\ (outcome.kind = "raised" /\ prompt # "notsent") =>
         outcome.value.type = "AgentError"

\* the close of the server failed after runTask had raised the AgentError of
\* a session.error event, and that AgentError left execute
C30_Witness ==
  /\ Ended
  /\ server = "closeFailed"
  /\ closeCalls = 1
  /\ cpc = "error"
  /\ outcome.kind = "raised"
  /\ outcome.value.type = "AgentError"
  /\ outcome = held

====
